---- MODULE Spec2Model ----
(***************************************************************************)
(* Engram global memory system: the ingestion front door                   *)
(* (handlePostMemory, save_memory), the queue consumer with its bounded    *)
(* retry (queue, withRetry), the vector store adapter (db/vectorize.ts),   *)
(* the relational store (db/schema.ts, db/queries), the curator            *)
(* (curateMemories) and rewritten search (handleRewrittenSearch,           *)
(* queryMultipleRewrittenVectors).                                         *)
(***************************************************************************)
EXTENDS Integers, Sequences, FiniteSets, TLC

VARIABLES
    now,        \* Date.now()
    submits,    \* number of front-door requests handled so far
    resp,       \* the last front-door request: its text, the response, the bindings called
    QUEUE,      \* env.QUEUE: envelopes waiting for delivery
    nextId,     \* crypto.randomUUID(): the next fresh id
    batch,      \* the MessageBatch being processed, one record per message
    VECTORIZE,  \* env.VECTORIZE: id -> vector record
    DB,         \* env.DB, table memories: id -> row
    logs,       \* logger.logs: the entries appended by SignalLogger.log
    curator,    \* the running curateMemories invocation
    search,     \* the rewritten search request being served
    basic,      \* the basic search request being served
    stream,     \* the subscriber of GET /api/sse/logs
    structured, \* the generateStructured call of the edge provider
    second      \* a curateMemories invocation suspended at an await

vars == <<now, submits, resp, QUEUE, nextId, batch, VECTORIZE, DB, logs, curator, search,
         basic, stream, structured, second>>

----------------------------------------------------------------------------
(* Bounds of the model *)

MaxSubmits == 2      \* front-door requests per behaviour
MaxIds == 3          \* ids the consumer draws per behaviour (deliveries)
MaxQueries == 2      \* queries of one rewritten search
ManyMemories == 12   \* memories in the stores of the larger curator runs
MaxLogs == 52        \* calls of logger.log in the behaviours of the log stream

(* Program constants *)

RETRIES == 3                 \* withRetry(fn, retries = 3)
CURATOR_TOPK == 3            \* querySimilarVectors(env, memory.text, 3)
RAW_LIMIT == 20              \* getRawMemories(env.DB, 20)
SIMILARITY_THRESHOLD == 92   \* env.SIMILIARITY_THRESHOLD || 0.92, in hundredths
CONSOLIDATION_CAP == 10      \* duplicatePairs.slice(0, 10) of the earlier curator
DEFAULT_TOPK == 5            \* topK || 5 in handleRewrittenSearch
SEARCH_TOPK == 10            \* querySimilarVectors(env, query, 10) in handleSearch
SEARCH_LIMIT == 5            \* limit: z.number().optional().default(5)
LOG_TAIL == 50               \* this.logs.slice(-50)

----------------------------------------------------------------------------
(* Values *)

Undefined == "<undefined>"           \* a missing string field
None == <<>>                         \* a missing array field
Some(x) == <<x>>

(* Texts a client may submit; "" is the empty string. *)
SubmitTexts == {"", "e1", "e2"}

----------------------------------------------------------------------------
(* Signal logger *)

(* SignalLogger.log(type, message) *)
log(l, type, message, id) == Append(l, [type |-> type, message |-> message, id |-> id])

----------------------------------------------------------------------------
(* Vector store adapter: db/vectorize.ts *)

(* generateEmbedding: the embedding of a text under the fixed model *)
generateEmbedding(text) == [model |-> "bge-large-en-v1.5", of |-> text]

(* An upsert that resolves without writing the record *)
upsertMemoryVectorDropped(store, text, id, timestamp, metadata) == store

(* upsertMemoryVector: the record written under id; the spread of the      *)
(* caller's metadata comes last and overrides the defaults.                *)
upsertMemoryVector(store, text, id, timestamp, metadata) ==
    LET record == [values |-> generateEmbedding(text),
                   created_at |-> timestamp,
                   priority_rank |-> metadata.priority_rank,
                   primary_tag |-> metadata.primary_tag]
    IN [x \in (DOMAIN store) \cup {id} |-> IF x = id THEN record ELSE store[x]]

(* The texts of the model fall into groups of near-duplicates: the three   *)
(* espresso memories e1, e2, e3 and a merged text ec; q sits exactly on    *)
(* the threshold from them; t and z are about something else.              *)
Group(text) ==
    CASE text \in {"e1", "e2", "e3", "ec"} -> "E"
      [] text = "q" -> "Q"
      [] text = "z" -> "Z"
      [] OTHER -> "T"

(* Cosine similarity of two embeddings, in hundredths *)
Score(v, w) ==
    IF v.of = w.of THEN 100
    ELSE LET g == {Group(v.of), Group(w.of)}
         IN IF g = {"E"} THEN 95
            ELSE IF g = {"E", "Q"} THEN 92
            ELSE IF "Z" \in g THEN 50
            ELSE 20

(* VECTORIZE.query(values, {topK}): the possible answers, each the ids of  *)
(* topK nearest records (fewer if the index is smaller); ties are broken   *)
(* by the index.                                                           *)
Query(store, values, topK) ==
    {S \in SUBSET DOMAIN store :
        /\ Cardinality(S) = IF Cardinality(DOMAIN store) < topK
                            THEN Cardinality(DOMAIN store) ELSE topK
        /\ \A x \in S, y \in (DOMAIN store) \ S :
              Score(values, store[x].values) >= Score(values, store[y].values)}

(* deleteMemoryVectors: VECTORIZE.deleteByIds(ids), nothing for no ids *)
deleteMemoryVectors(store, ids) ==
    IF ids = {} THEN store ELSE [x \in (DOMAIN store) \ ids |-> store[x]]

----------------------------------------------------------------------------
(* Relational store: table memories, id is the primary key *)

RECURSIVE Join(_)
Join(tags) ==
    IF Len(tags) = 0 THEN ""
    ELSE IF Len(tags) = 1 THEN "\"" \o tags[1] \o "\""
    ELSE "\"" \o tags[1] \o "\"," \o Join(Tail(tags))

(* JSON.stringify(context_tags): undefined stays undefined *)
JSONstringify(context_tags) ==
    IF context_tags = None THEN Undefined ELSE "[" \o Join(context_tags[1]) \o "]"

(* createMemory: INSERT INTO memories; the primary key refuses a second    *)
(* row with the same id.                                                   *)
DuplicateKey(db, memory) == memory.id \in DOMAIN db

createMemory(db, memory) ==
    [x \in (DOMAIN db) \cup {memory.id} |->
        IF x = memory.id
        THEN [text |-> memory.text, tags |-> memory.tags,
              sourceApp |-> memory.sourceApp, sessionId |-> memory.sessionId,
              status |-> memory.status, createdAt |-> memory.createdAt,
              updatedAt |-> now]
        ELSE db[x]]

(* getMemoriesByIds: the rows whose id is among ids *)
getMemoriesByIds(db, ids) == ids \cap DOMAIN db

(* getRawMemories: the ids of the rows with status raw *)
getRawMemories(db) == {x \in DOMAIN db : db[x].status = "raw"}

(* markMemoryProcessed: UPDATE ... SET status = 'processed' WHERE id = ? *)
markMemoryProcessed(db, id) ==
    [x \in DOMAIN db |-> IF x = id THEN [db[x] EXCEPT !.status = "processed"] ELSE db[x]]

(* updateConsolidatedMemory: UPDATE ... SET text, status = 'consolidated',  *)
(* updated_at WHERE id = ?; no row, no change.                             *)
updateConsolidatedMemory(db, id, newText) ==
    [x \in DOMAIN db |->
        IF x = id
        THEN [db[x] EXCEPT !.text = newText, !.status = "consolidated", !.updatedAt = now]
        ELSE db[x]]

(* deleteMemories: DELETE ... WHERE id IN ids *)
deleteMemories(db, ids) == [x \in (DOMAIN db) \ ids |-> db[x]]

----------------------------------------------------------------------------
(* Front door *)

NoResp == [entry |-> "none", text |-> Undefined, status |-> 0, body |-> "none", calls |-> <<>>]

(* env.QUEUE.send(message) *)
Send(message) == Append(QUEUE, message)

(* JavaScript truthiness of a string-or-undefined value: !text *)
Falsy(s) == s = Undefined \/ s = ""

Or(s, dflt) == IF Falsy(s) THEN dflt ELSE s

(* handlePostMemory: POST /api/memory *)
handlePostMemory(body, sendOk) ==
    /\ submits < MaxSubmits
    /\ submits' = submits + 1
    /\ IF Falsy(body.text)
       THEN /\ resp' = [entry |-> "http", text |-> body.text, status |-> 400, body |-> "Missing text", calls |-> <<>>]
            /\ QUEUE' = QUEUE
       ELSE LET message == [text |-> body.text,
                            context_tags |-> Some(<<"web-ui">>),
                            timestamp |-> now,
                            source_app |-> Or(body.source_app, "web-client"),
                            session_id |-> Or(body.session_id, "default-session")]
            IN IF sendOk
               THEN /\ QUEUE' = Send(message)
                    /\ resp' = [entry |-> "http", text |-> body.text, status |-> 200, body |-> "queued", calls |-> <<"QUEUE">>]
               ELSE /\ QUEUE' = QUEUE
                    /\ resp' = [entry |-> "http", text |-> body.text, status |-> 500, body |-> "error", calls |-> <<"QUEUE">>]
    /\ now' = now + 1
    /\ UNCHANGED <<nextId, batch, VECTORIZE, DB, logs, curator, search, basic, stream, structured, second>>

(* save_memory writing the memory itself instead of handing it to the queue *)
save_memory_inline(args, sendOk) ==
    /\ submits < MaxSubmits
    /\ submits' = submits + 1
    /\ args.text # Undefined
    /\ sendOk
    /\ resp' = [entry |-> "tool", text |-> args.text, status |-> 200, body |-> "queued",
                calls |-> <<"AI", "VECTORIZE", "DB">>]
    /\ VECTORIZE' = upsertMemoryVector(VECTORIZE, args.text, nextId, now,
                                       [primary_tag |-> "general", priority_rank |-> 0])
    /\ DB' = createMemory(DB, [id |-> nextId, text |-> args.text, tags |-> Undefined,
                               createdAt |-> now, sourceApp |-> "unknown",
                               sessionId |-> "unknown", status |-> "raw"])
    /\ nextId' = nextId + 1
    /\ now' = now + 1
    /\ UNCHANGED <<QUEUE, batch, logs, curator, search, basic, stream, structured, second>>

(* save_memory: the MCP tool registered by MemoryTools.register.  The      *)
(* schema text: z.string() refuses a missing text before the callback      *)
(* runs; it has no minimum length.                                         *)
save_memory(args, sendOk) ==
    /\ submits < MaxSubmits
    /\ submits' = submits + 1
    /\ IF args.text = Undefined
       THEN /\ resp' = [entry |-> "tool", text |-> args.text, status |-> 400, body |-> "Invalid arguments", calls |-> <<>>]
            /\ QUEUE' = QUEUE
       ELSE LET message == [text |-> args.text,
                            context_tags |-> IF args.context_tags = None
                                             THEN Some(<<"general">>)
                                             ELSE args.context_tags,
                            timestamp |-> now,
                            source_app |-> args.source_app,
                            session_id |-> args.session_id]
            IN IF sendOk
               THEN /\ QUEUE' = Send(message)
                    /\ resp' = [entry |-> "tool", text |-> args.text, status |-> 200, body |-> "queued", calls |-> <<"QUEUE">>]
               ELSE /\ QUEUE' = QUEUE
                    /\ resp' = [entry |-> "tool", text |-> args.text, status |-> 500, body |-> "error", calls |-> <<"QUEUE">>]
    /\ now' = now + 1
    /\ UNCHANGED <<nextId, batch, VECTORIZE, DB, logs, curator, search, basic, stream, structured, second>>

(* Request bodies of POST /api/memory *)
HttpBodies ==
    {[text |-> t, source_app |-> p[1], session_id |-> p[2]] :
        t \in SubmitTexts \cup {Undefined},
        p \in {<<Undefined, Undefined>>, <<"cli", "s1">>}}

(* Arguments of save_memory *)
ToolArgs ==
    {[text |-> t, context_tags |-> c, source_app |-> Undefined, session_id |-> Undefined] :
        t \in SubmitTexts \cup {Undefined},
        c \in {None, Some(<<>>), Some(<<"coding", "prefs">>)}}

PostMemory == \E body \in HttpBodies, sendOk \in BOOLEAN : handlePostMemory(body, sendOk)

SaveMemory == \E args \in ToolArgs, sendOk \in BOOLEAN : save_memory(args, sendOk)

----------------------------------------------------------------------------
(* Queue consumer: queue(batch, env, ctx) *)

Settled(m) == m.pc \in {"acked", "retried"}

(* The indices of S in increasing order *)
RECURSIVE Ordered(_)
Ordered(S) ==
    IF S = {} THEN <<>>
    ELSE LET lo == CHOOSE x \in S : \A y \in S : x <= y
         IN <<lo>> \o Ordered(S \ {lo})

(* The closure of batch.messages.map up to its first await: the id is     *)
(* drawn once, before withRetry, and the 'process' entry is logged.        *)
NewMessage(body, id) ==
    [body |-> body, id |-> id, pc |-> "attempt", step |-> 1, i |-> 0,
     vecDone |-> FALSE,       \* this attempt's vector upsert has completed
     rowStarted |-> FALSE,    \* this attempt's relational insert was started
     usedIds |-> {},          \* ids this delivery has written under
     upserts |-> 0,           \* completed vector upserts
     insertFails |-> 0,       \* failed relational inserts
     fails |-> 0,             \* calls of fn() that threw
     succeeded |-> FALSE,     \* fn() has resolved
     lastErr |-> Undefined,   \* the error of the latest failed attempt
     thrown |-> Undefined,    \* the error caught at the consumer's catch
     acks |-> 0, retries |-> 0]

(* withRetry has called fn() this many times *)
Attempts(m) == m.i + 1

(* The queue hands over a batch: any of the waiting messages *)
Deliver(S) ==
    /\ S # {} /\ nextId + Cardinality(S) - 1 <= MaxIds
    /\ \A k \in DOMAIN batch : Settled(batch[k])
    /\ S \subseteq DOMAIN QUEUE
    /\ LET idx == Ordered(S)
           rest == Ordered((DOMAIN QUEUE) \ S)
       IN /\ batch' = [j \in 1..Len(idx) |-> NewMessage(QUEUE[idx[j]], nextId + j - 1)]
          /\ nextId' = nextId + Len(idx)
          /\ QUEUE' = [j \in 1..Len(rest) |-> QUEUE[rest[j]]]
          /\ logs' = logs \o [j \in 1..Len(idx) |->
                                [type |-> "process", message |-> "Ingesting memory",
                                 id |-> nextId + j - 1]]
    /\ UNCHANGED <<search, now, submits, resp, VECTORIZE, DB, curator, basic, stream, structured, second>>

(* withRetry rethrowing one pass too late *)
withRetryRethrowsLate(i, retries) == i = retries

(* withRetry, the catch clause: the error is rethrown on the last pass of  *)
(* the loop, otherwise the backoff timer is started.                       *)
withRetryRethrows(i, retries) == i = retries - 1

(* withRetry, the loop condition *)
withRetryLoops(i, retries) == i < retries

(* message.retry(): the queue will deliver the message again *)
retry(queue, body) == Append(queue, body)

(* A catch clause that only logs *)
CatchSwallows(m, err) ==
    [m EXCEPT !.thrown = err, !.pc = "retried"]

(* The consumer's catch clause: log the error, request redelivery *)
Catch(m, err) ==
    [m EXCEPT !.thrown = err, !.pc = "retried", !.retries = @ + 1]

(* The consumer after withRetry has resolved: log success, ack *)
Ack(m) ==
    [m EXCEPT !.pc = "acked", !.acks = @ + 1]

(* The two writes in the opposite order *)
AttemptStepsSwapped == <<"insert", "upsert">>

(* The order of the two writes inside the function given to withRetry *)
AttemptSteps == <<"upsert", "insert">>

(* fn() threw err on pass m.i of withRetry *)
Failed(k, m0, err) ==
    LET m == [m0 EXCEPT !.lastErr = err, !.fails = @ + 1]
    IN IF withRetryRethrows(m.i, RETRIES)
       THEN /\ batch' = [batch EXCEPT ![k] = Catch(m, err)]
            /\ QUEUE' = IF Catch(m, err).retries > m.retries
                        THEN retry(QUEUE, m.body) ELSE QUEUE
            /\ logs' = log(logs, "error", "Failed to process memory", m.id)
       ELSE /\ batch' = [batch EXCEPT ![k] = [m EXCEPT !.pc = "backoff"]]
            /\ UNCHANGED <<QUEUE, logs>>

(* One step of fn() completed without an error *)
Advance(m) ==
    IF m.step = Len(AttemptSteps)
    THEN [m EXCEPT !.pc = "settle", !.succeeded = TRUE]
    ELSE [m EXCEPT !.step = @ + 1]

(* An id drawn inside fn(), anew on every pass *)
RetryIdFresh(m, fresh) == fresh

(* The id fn() writes under on a later pass of withRetry: the const id of  *)
(* the enclosing closure, drawn before withRetry.                          *)
RetryId(m, fresh) == m.id

(* A row stamped with the consumer's clock instead of the envelope's *)
NewRowNow(m) ==
    [id |-> m.id, text |-> m.body.text,
     tags |-> JSONstringify(m.body.context_tags),
     createdAt |-> now,
     sourceApp |-> Or(m.body.source_app, "unknown"),
     sessionId |-> Or(m.body.session_id, "unknown"),
     status |-> "raw"]

(* The row given to createMemory *)
NewRow(m) ==
    [id |-> m.id, text |-> m.body.text,
     tags |-> JSONstringify(m.body.context_tags),
     createdAt |-> m.body.timestamp,
     sourceApp |-> Or(m.body.source_app, "unknown"),
     sessionId |-> Or(m.body.session_id, "unknown"),
     status |-> "raw"]

(* The metadata built without the test on the length of context_tags: the *)
(* first element of an empty array is undefined, and the spread in         *)
(* upsertMemoryVector puts it over the default.                            *)
IngestMetadataUnguarded(context_tags) ==
    [primary_tag |-> IF context_tags = None THEN "general"
                     ELSE IF Len(context_tags[1]) > 0 THEN context_tags[1][1] ELSE Undefined,
     priority_rank |-> 0]

(* The metadata given to upsertMemoryVector *)
IngestMetadata(context_tags) ==
    [primary_tag |-> IF context_tags # None /\ Len(context_tags[1]) > 0
                     THEN context_tags[1][1] ELSE "general",
     priority_rank |-> 0]

UpsertOutcomes == {"ok", "Embedding or upsert failed"}
InsertOutcomes == {"ok", "D1 unavailable", "D1 timeout"}

(* 1. Vectorize: VectorService.upsertMemoryVector(env, text, id, timestamp, ...): *)
(* the embedding call, then VECTORIZE.upsert; either may throw.            *)
Upsert(k, outcome) ==
    /\ k \in DOMAIN batch
    /\ batch[k].pc = "attempt" /\ AttemptSteps[batch[k].step] = "upsert"
    /\ LET m == batch[k]
       IN IF outcome # "ok"
          THEN Failed(k, m, outcome) /\ UNCHANGED VECTORIZE
          ELSE /\ VECTORIZE' = upsertMemoryVector(VECTORIZE, m.body.text, m.id, m.body.timestamp,
                                                  IngestMetadata(m.body.context_tags))
               /\ batch' = [batch EXCEPT ![k] =
                              Advance([m EXCEPT !.vecDone = TRUE, !.upserts = @ + 1,
                                                !.usedIds = @ \cup {m.id}])]
               /\ UNCHANGED <<QUEUE, logs>>
    /\ UNCHANGED <<search, now, submits, resp, nextId, DB, curator, basic, stream, structured, second>>

(* 2. D1: createMemory(env.DB, {...}).  The insert may be refused by the   *)
(* primary key, and its answer may be lost after the row was written.      *)
Insert(k, outcome) ==
    /\ k \in DOMAIN batch
    /\ batch[k].pc = "attempt" /\ AttemptSteps[batch[k].step] = "insert"
    /\ LET m == [batch[k] EXCEPT !.rowStarted = TRUE]
           f == [m EXCEPT !.insertFails = @ + 1]
           w == [f EXCEPT !.usedIds = @ \cup {m.id}]
       IN IF outcome = "D1 unavailable"
          THEN Failed(k, f, outcome) /\ UNCHANGED DB
          ELSE IF DuplicateKey(DB, NewRow(m))
          THEN /\ outcome = "ok"
               /\ Failed(k, f, "UNIQUE constraint failed") /\ UNCHANGED DB
          ELSE /\ DB' = createMemory(DB, NewRow(m))
               /\ IF outcome = "D1 timeout"
                  THEN Failed(k, w, outcome)
                  ELSE /\ batch' = [batch EXCEPT ![k] =
                                      Advance([m EXCEPT !.usedIds = @ \cup {m.id}])]
                       /\ UNCHANGED <<QUEUE, logs>>
    /\ UNCHANGED <<search, now, submits, resp, nextId, VECTORIZE, curator, basic, stream, structured, second>>

(* withRetry: the backoff timer fires, i++, and the loop condition is      *)
(* tested; falling out of the loop throws "Retry failed".                  *)
Backoff(k) ==
    /\ k \in DOMAIN batch
    /\ batch[k].pc = "backoff"
    /\ LET m == [batch[k] EXCEPT !.i = @ + 1]
       IN IF withRetryLoops(m.i, RETRIES)
          THEN /\ batch' = [batch EXCEPT ![k] =
                              [m EXCEPT !.pc = "attempt", !.step = 1, !.id = RetryId(m, nextId),
                                        !.vecDone = FALSE, !.rowStarted = FALSE]]
               /\ nextId' = IF RetryId(m, nextId) = nextId THEN nextId + 1 ELSE nextId
               /\ UNCHANGED <<QUEUE, logs>>
          ELSE /\ batch' = [batch EXCEPT ![k] = Catch(m, "Retry failed")]
               /\ QUEUE' = IF Catch(m, "Retry failed").retries > m.retries
                           THEN retry(QUEUE, m.body) ELSE QUEUE
               /\ logs' = log(logs, "error", "Failed to process memory", m.id)
               /\ UNCHANGED nextId
    /\ UNCHANGED <<search, now, submits, resp, VECTORIZE, DB, curator, basic, stream, structured, second>>

(* withRetry has resolved: logger.log('success', ...); message.ack() *)
Settle(k) ==
    /\ k \in DOMAIN batch
    /\ batch[k].pc = "settle"
    /\ batch' = [batch EXCEPT ![k] = Ack(batch[k])]
    /\ logs' = log(logs, "success", "Memory saved successfully", batch[k].id)
    /\ UNCHANGED <<search, now, submits, resp, QUEUE, nextId, VECTORIZE, DB, curator, basic, stream, structured, second>>

----------------------------------------------------------------------------
(* Curator: curateMemories(env) *)

(* Texts the LLM may answer the consolidation prompt with: one that stays  *)
(* close to the merged memories, one that does not.                        *)
MergeOutputs == {"ec", "z"}

NoMerge == [anchor |-> 0, matches |-> {}, deleted |-> {}]

(* No consolidation was cut short *)
NoPartial == [anchor |-> 0, newText |-> Undefined, deleteIds |-> {}]

(* No invocation has ended yet *)
NoFinal == [DB |-> <<>>, VECTORIZE |-> <<>>, logs |-> 0]

(* No invocation is running *)
Idle ==
    [pc |-> "idle", idx |-> 0, rawMemories |-> <<>>,
     startRows |-> {}, startVectors |-> {},   \* the stores' ids when the run began
     matchIds |-> {}, deleteIds |-> {}, newText |-> Undefined,
     merged |-> NoMerge,                      \* the consolidation just completed
     run |-> 1,                               \* invocations started so far
     final |-> NoFinal,                       \* the stores as the previous invocation left them
     partial |-> NoPartial]                   \* the first consolidation cut short after its update

(* A snapshot taken without regard to the status of the rows *)
rawSnapshotAnyStatus(db, order) ==
    /\ Len(order) = IF Cardinality(DOMAIN db) < RAW_LIMIT
                    THEN Cardinality(DOMAIN db) ELSE RAW_LIMIT
    /\ \A j \in DOMAIN order : order[j] \in DOMAIN db
    /\ \A j, l \in DOMAIN order : j # l => order[j] # order[l]

(* const rawMemories = await getRawMemories(env.DB, 20): order lists the   *)
(* ids of at most RAW_LIMIT raw rows, each once.                           *)
rawSnapshot(db, order) ==
    /\ Len(order) = IF Cardinality(getRawMemories(db)) < RAW_LIMIT
                    THEN Cardinality(getRawMemories(db)) ELSE RAW_LIMIT
    /\ \A j \in DOMAIN order : order[j] \in getRawMemories(db)
    /\ \A j, l \in DOMAIN order : j # l => order[j] # order[l]

(* curateMemories is invoked: log, then getRawMemories(env.DB, 20).  The   *)
(* candidates are a snapshot, in the order the select returns them.        *)
CuratorStart(order, ok) ==
    /\ curator.pc = "idle"
    /\ IF ~ok
       THEN /\ curator' = [curator EXCEPT !.pc = "crashed"]
            /\ logs' = log(logs, "info", "Curator starting", 0)
       ELSE /\ rawSnapshot(DB, order)
            /\ IF Len(order) = 0
               THEN /\ curator' = [curator EXCEPT !.pc = "done", !.startRows = DOMAIN DB,
                                                  !.startVectors = DOMAIN VECTORIZE]
                    /\ logs' = log(logs, "info", "Curator starting", 0)
               ELSE /\ curator' =
                          [pc |-> "query", idx |-> 1,
                           rawMemories |-> [j \in DOMAIN order |->
                                             [id |-> order[j], text |-> DB[order[j]].text,
                                              createdAt |-> DB[order[j]].createdAt]],
                           startRows |-> DOMAIN DB, startVectors |-> DOMAIN VECTORIZE,
                           matchIds |-> {}, deleteIds |-> {}, newText |-> Undefined,
                           merged |-> NoMerge,
                           run |-> curator.run, final |-> curator.final,
                           partial |-> curator.partial]
                    /\ logs' = log(log(logs, "info", "Curator starting", 0),
                                   "process", "Curating new memories", Len(order))
    /\ UNCHANGED <<search, now, submits, resp, QUEUE, nextId, batch, VECTORIZE, DB, basic, stream, structured, second>>

Running(pc) == curator.pc = pc

memory == curator.rawMemories[curator.idx]

(* The for loop moves on to the next candidate, or ends *)
NextCandidate(c) ==
    IF c.idx = Len(c.rawMemories)
    THEN [c EXCEPT !.pc = "done"]
    ELSE [c EXCEPT !.pc = "query", !.idx = @ + 1, !.matchIds = {}, !.deleteIds = {},
                   !.newText = Undefined]

(* A catch clause that logs the error and throws it again *)
CuratorCatchRethrows ==
    /\ curator' = [curator EXCEPT !.pc = "crashed", !.merged = NoMerge]
    /\ logs' = log(logs, "error", "Curator failed for memory", memory.id)

(* A catch clause inside the consolidation: log the error, go on with the  *)
(* next call of the same candidate                                         *)
CuratorCatchContinues ==
    /\ curator' = IF curator.pc \in {"update", "upsert", "deleteRows"}
                  THEN [curator EXCEPT !.pc = CASE @ = "update" -> "upsert"
                                                [] @ = "upsert" -> "deleteRows"
                                                [] OTHER -> "deleteVectors"]
                  ELSE NextCandidate([curator EXCEPT !.merged = NoMerge])
    /\ logs' = log(logs, "error", "Curator failed for memory", memory.id)

(* The catch clause of the loop body: log the error, go on *)
CuratorCatch ==
    /\ curator' = NextCandidate(
           [curator EXCEPT !.merged = NoMerge,
                           !.partial = IF /\ curator.pc \in {"upsert", "deleteRows", "deleteVectors"}
                                          /\ curator.partial = NoPartial
                                          /\ memory.id \in DOMAIN DB
                                       THEN [anchor |-> memory.id, newText |-> curator.newText,
                                             deleteIds |-> curator.deleteIds]
                                       ELSE @])
    /\ logs' = log(logs, "error", "Curator failed for memory", memory.id)

(* A filter that takes a score equal to the threshold as well *)
IsDuplicateFromThreshold(id, candidate, score) ==
    id # candidate /\ score >= SIMILARITY_THRESHOLD

(* m.id !== memory.id && m.score > Number(env.SIMILIARITY_THRESHOLD || 0.92) *)
IsDuplicate(id, candidate, score) ==
    id # candidate /\ score > SIMILARITY_THRESHOLD

(* querySimilarVectors(env, memory.text, 3) and the filter on id and score *)
CuratorQuery(S, ok) ==
    /\ Running("query")
    /\ IF ~ok
       THEN CuratorCatch
       ELSE /\ S \in Query(VECTORIZE, generateEmbedding(memory.text), CURATOR_TOPK)
            /\ LET matches == {x \in S :
                                 IsDuplicate(x, memory.id,
                                             Score(generateEmbedding(memory.text),
                                                   VECTORIZE[x].values))}
               IN curator' = [curator EXCEPT !.matchIds = matches, !.merged = NoMerge,
                                             !.pc = IF matches # {} THEN "hydrate" ELSE "mark"]
            /\ logs' = logs
    /\ UNCHANGED <<search, now, submits, resp, QUEUE, nextId, batch, VECTORIZE, DB, basic, stream, structured, second>>

(* getMemoriesByIds(env.DB, matchIds) *)
CuratorHydrate(ok) ==
    /\ Running("hydrate")
    /\ IF ~ok
       THEN CuratorCatch
       ELSE /\ LET duplicates == getMemoriesByIds(DB, curator.matchIds)
               IN curator' = [curator EXCEPT !.deleteIds = duplicates,
                                             !.pc = IF duplicates # {} THEN "generate" ELSE "mark"]
            /\ logs' = logs
    /\ UNCHANGED <<search, now, submits, resp, QUEUE, nextId, batch, VECTORIZE, DB, basic, stream, structured, second>>

(* AIProvider.generateText(env, prompt, ...) *)
CuratorGenerate(newText, ok) ==
    /\ Running("generate")
    /\ IF ~ok
       THEN CuratorCatch
       ELSE /\ curator' = [curator EXCEPT !.newText = newText, !.pc = "update"]
            /\ logs' = logs
    /\ UNCHANGED <<search, now, submits, resp, QUEUE, nextId, batch, VECTORIZE, DB, basic, stream, structured, second>>

(* updateConsolidatedMemory(env.DB, memory.id, newText) *)
CuratorUpdate(ok) ==
    /\ Running("update")
    /\ IF ~ok
       THEN CuratorCatch /\ UNCHANGED DB
       ELSE /\ DB' = updateConsolidatedMemory(DB, memory.id, curator.newText)
            /\ curator' = [curator EXCEPT !.pc = "upsert"]
            /\ logs' = logs
    /\ UNCHANGED <<search, now, submits, resp, QUEUE, nextId, batch, VECTORIZE, basic, stream, structured, second>>

(* upsertMemoryVector(env, newText, memory.id, memory.createdAt, {...}) *)
CuratorUpsert(ok) ==
    /\ Running("upsert")
    /\ IF ~ok
       THEN CuratorCatch /\ UNCHANGED VECTORIZE
       ELSE /\ VECTORIZE' = upsertMemoryVector(VECTORIZE, curator.newText, memory.id,
                                               memory.createdAt,
                                               [priority_rank |-> 1, primary_tag |-> "consolidated"])
            /\ curator' = [curator EXCEPT !.pc = "deleteRows"]
            /\ logs' = logs
    /\ UNCHANGED <<search, now, submits, resp, QUEUE, nextId, batch, DB, basic, stream, structured, second>>

(* deleteMemories(env.DB, deleteIds) *)
CuratorDeleteRows(ok) ==
    /\ Running("deleteRows")
    /\ IF ~ok
       THEN CuratorCatch /\ UNCHANGED DB
       ELSE /\ DB' = deleteMemories(DB, curator.deleteIds)
            /\ curator' = [curator EXCEPT !.pc = "deleteVectors"]
            /\ logs' = logs
    /\ UNCHANGED <<search, now, submits, resp, QUEUE, nextId, batch, VECTORIZE, basic, stream, structured, second>>

(* deleteMemoryVectors(env, deleteIds); log the merge; continue *)
CuratorDeleteVectors(ok) ==
    /\ Running("deleteVectors")
    /\ IF ~ok
       THEN CuratorCatch /\ UNCHANGED VECTORIZE
       ELSE /\ VECTORIZE' = deleteMemoryVectors(VECTORIZE, curator.deleteIds)
            /\ curator' = NextCandidate(
                   [curator EXCEPT !.merged = [anchor |-> memory.id,
                                               matches |-> curator.matchIds,
                                               deleted |-> curator.deleteIds]])
            /\ logs' = log(logs, "success", "Merged memories into", memory.id)
    /\ UNCHANGED <<search, now, submits, resp, QUEUE, nextId, batch, DB, basic, stream, structured, second>>

(* markMemoryProcessed(env.DB, memory.id) *)
CuratorMark(ok) ==
    /\ Running("mark")
    /\ IF ~ok
       THEN CuratorCatch /\ UNCHANGED DB
       ELSE /\ DB' = markMemoryProcessed(DB, memory.id)
            /\ curator' = NextCandidate(curator)
            /\ logs' = logs
    /\ UNCHANGED <<search, now, submits, resp, QUEUE, nextId, batch, VECTORIZE, basic, stream, structured, second>>

(* The invocation has returned; the next trigger (the scheduled handler or *)
(* /trigger-curator) starts another one.                                   *)
CuratorRerun ==
    /\ Running("done") /\ curator.run = 1
    /\ curator' = [Idle EXCEPT !.run = 2,
                               !.final = [DB |-> DB, VECTORIZE |-> VECTORIZE, logs |-> Len(logs)],
                               !.partial = curator.partial]
    /\ UNCHANGED <<search, now, submits, resp, QUEUE, nextId, batch, VECTORIZE, DB, logs, basic, stream, structured, second>>

(* Two triggers: /trigger-curator and the scheduled handler each hand      *)
(* curateMemories(env) to ctx.waitUntil, whatever else is running.  While  *)
(* the invocation in curator waits at one of its awaits, the other one     *)
(* (not yet started, or waiting as well) takes its place.                  *)
Switch ==
    /\ curator' = second
    /\ second' = curator
    /\ curator # second
    /\ UNCHANGED <<now, submits, resp, QUEUE, nextId, batch, VECTORIZE, DB, logs, search,
                   basic, stream, structured>>

----------------------------------------------------------------------------
(* Rewritten search: handleRewrittenSearch, queryMultipleRewrittenVectors *)

(* body.queries as it arrives: missing, not an array, or an array *)
Missing == [kind |-> "missing", value |-> <<>>]
NotArray == [kind |-> "string", value |-> <<>>]
Array(queries) == [kind |-> "array", value |-> queries]

(* No result of a sub-query yet *)
NoValue ==
    [originalQuery |-> Undefined, rewrittenQuery |-> Undefined,
     vectorResults |-> [matches |-> {}]]

(* No request is being served *)
NoSearch ==
    [pc |-> "idle", body |-> Missing, queries |-> <<>>, topK |-> 0,
     sub |-> <<>>,            \* one record per promise of queries.map
     completed |-> <<>>,      \* the promises in the order they were fulfilled
     status |-> 0, kind |-> "none", error |-> Undefined, results |-> <<>>,
     calls |-> [rewrite |-> 0, embed |-> 0, query |-> 0]]

(* AIProvider.rewriteQuestionForMCP(env, originalQuery, ...): the texts it *)
(* may resolve with.                                                       *)
RewriteOutputs(originalQuery) == {"mcp " \o originalQuery}

(* The closure given to queries.map, up to its first await *)
NewSubQuery(originalQuery) ==
    [originalQuery |-> originalQuery, pc |-> "rewrite",
     rewrittenQuery |-> Undefined,
     failedAt |-> "none",      \* the step of the primary attempt that threw
     fallbackRuns |-> 0,       \* times the catch block was entered
     fallbackFailed |-> FALSE, \* the fallback threw as well
     value |-> NoValue]

(* The test of the request without the one on the length *)
InvalidQueriesAnyLength(queries) == queries.kind # "array"

(* !queries || !Array.isArray(queries) || queries.length === 0 *)
InvalidQueries(queries) == queries.kind # "array" \/ Len(queries.value) = 0

(* queryMultipleRewrittenVectors up to Promise.allSettled: nothing to do   *)
(* for no queries, else one promise per query.                             *)
queryMultipleRewrittenVectors(s, queries, topK) ==
    IF Len(queries) = 0
    THEN [s EXCEPT !.pc = "collected", !.queries = queries, !.topK = topK]
    ELSE [s EXCEPT !.pc = "fanout", !.queries = queries, !.topK = topK,
                   !.sub = [i \in DOMAIN queries |-> NewSubQuery(queries[i])]]

(* handleRewrittenSearch: POST /api/search/rewritten *)
handleRewrittenSearch(body) ==
    /\ search.pc = "idle"
    /\ IF InvalidQueries(body.queries)
       THEN /\ search' = [search EXCEPT !.pc = "responded", !.body = body, !.status = 400,
                                         !.kind = "error",
                                         !.error = "Missing or invalid queries array"]
            /\ logs' = logs
       ELSE /\ search' = queryMultipleRewrittenVectors(
                            [search EXCEPT !.body = body], body.queries.value,
                            IF body.topK = 0 THEN DEFAULT_TOPK ELSE body.topK)
            /\ logs' = log(logs, "process", "Rewritten search requested",
                           Len(body.queries.value))
    /\ UNCHANGED <<now, submits, resp, QUEUE, nextId, batch, VECTORIZE, DB, curator, basic, stream, structured, second>>

(* A catch block that gives up at once *)
OnPrimaryFailureGiveUp(q, step) ==
    [q EXCEPT !.failedAt = step, !.pc = "fulfilled", !.fallbackFailed = TRUE,
              !.value = [originalQuery |-> q.originalQuery,
                         rewrittenQuery |-> q.originalQuery,
                         vectorResults |-> [matches |-> {}]]]

(* The primary attempt threw at step: the catch block starts the fallback  *)
(* with the original query.                                                *)
OnPrimaryFailure(q, step) ==
    [q EXCEPT !.failedAt = step, !.pc = "fbEmbed", !.fallbackRuns = @ + 1]

(* The fallback threw: the inner catch returns the empty result *)
OnFallbackFailure(q) ==
    [q EXCEPT !.pc = "fulfilled", !.fallbackFailed = TRUE,
              !.value = [originalQuery |-> q.originalQuery,
                         rewrittenQuery |-> q.originalQuery,
                         vectorResults |-> [matches |-> {}]]]

(* The closure returns: its promise is fulfilled *)
Fulfil(q, rewrittenQuery, matches) ==
    [q EXCEPT !.pc = "fulfilled",
              !.value = [originalQuery |-> q.originalQuery,
                         rewrittenQuery |-> rewrittenQuery,
                         vectorResults |-> [matches |-> matches]]]

(* The promise of sub-query i takes a step to q *)
SubStep(i, q, call) ==
    search' = [search EXCEPT !.sub[i] = q,
                             !.calls[call] = @ + 1,
                             !.completed = IF q.pc = "fulfilled" /\ search.sub[i].pc # "fulfilled"
                                           THEN Append(@, i) ELSE @]

(* 1. Rewrite the query *)
Rewrite(i, rewritten, ok) ==
    /\ search.pc = "fanout" /\ i \in DOMAIN search.sub
    /\ search.sub[i].pc = "rewrite"
    /\ rewritten \in RewriteOutputs(search.sub[i].originalQuery)
    /\ LET q == search.sub[i]
       IN SubStep(i, IF ok THEN [q EXCEPT !.rewrittenQuery = rewritten, !.pc = "embed"]
                           ELSE OnPrimaryFailure(q, "rewrite"), "rewrite")
    /\ UNCHANGED <<now, submits, resp, QUEUE, nextId, batch, VECTORIZE, DB, logs, curator, basic, stream, structured, second>>

(* 2. Generate the embedding of the rewritten query *)
Embed(i, ok) ==
    /\ search.pc = "fanout" /\ i \in DOMAIN search.sub
    /\ search.sub[i].pc = "embed"
    /\ LET q == search.sub[i]
       IN SubStep(i, IF ok THEN [q EXCEPT !.pc = "query"]
                           ELSE OnPrimaryFailure(q, "embed"), "embed")
    /\ UNCHANGED <<now, submits, resp, QUEUE, nextId, batch, VECTORIZE, DB, logs, curator, basic, stream, structured, second>>

(* 3. Query the vector database *)
VectorQuery(i, S, ok) ==
    /\ search.pc = "fanout" /\ i \in DOMAIN search.sub
    /\ search.sub[i].pc = "query"
    /\ LET q == search.sub[i]
       IN /\ S \in Query(VECTORIZE, generateEmbedding(q.rewrittenQuery), search.topK)
          /\ SubStep(i, IF ok THEN Fulfil(q, q.rewrittenQuery, S)
                              ELSE OnPrimaryFailure(q, "query"), "query")
    /\ UNCHANGED <<now, submits, resp, QUEUE, nextId, batch, VECTORIZE, DB, logs, curator, basic, stream, structured, second>>

(* Fallback: the embedding of the original query *)
FallbackEmbed(i, ok) ==
    /\ search.pc = "fanout" /\ i \in DOMAIN search.sub
    /\ search.sub[i].pc = "fbEmbed"
    /\ LET q == search.sub[i]
       IN SubStep(i, IF ok THEN [q EXCEPT !.pc = "fbQuery"]
                           ELSE OnFallbackFailure(q), "embed")
    /\ UNCHANGED <<now, submits, resp, QUEUE, nextId, batch, VECTORIZE, DB, logs, curator, basic, stream, structured, second>>

(* Fallback: the vector query with it *)
FallbackQuery(i, S, ok) ==
    /\ search.pc = "fanout" /\ i \in DOMAIN search.sub
    /\ search.sub[i].pc = "fbQuery"
    /\ LET q == search.sub[i]
       IN /\ S \in Query(VECTORIZE, generateEmbedding(q.originalQuery), search.topK)
          /\ SubStep(i, IF ok THEN Fulfil(q, q.originalQuery, S)
                              ELSE OnFallbackFailure(q), "query")
    /\ UNCHANGED <<now, submits, resp, QUEUE, nextId, batch, VECTORIZE, DB, logs, curator, basic, stream, structured, second>>

(* The values gathered as the promises were fulfilled *)
CollectAsCompleted(sub, completed) ==
    [j \in DOMAIN completed |-> sub[completed[j]].value]

(* results.filter(fulfilled).map(value): allSettled keeps the order of the *)
(* promises it was given, and every promise here is fulfilled.             *)
Collect(sub, completed) ==
    [j \in DOMAIN sub |-> sub[j].value]

(* A handler that fails the request when a sub-query came back empty-handed *)
RequestStatusAllOrNothing(sub) ==
    IF \E j \in DOMAIN sub : sub[j].fallbackFailed THEN 500 ELSE 200

(* handleRewrittenSearch after the await: nothing was thrown *)
RequestStatus(sub) == 200

(* All promises are settled: log, answer *)
Respond ==
    /\ \/ search.pc = "collected"
       \/ /\ search.pc = "fanout"
          /\ \A i \in DOMAIN search.sub : search.sub[i].pc = "fulfilled"
    /\ LET results == Collect(search.sub, search.completed)
       IN IF RequestStatus(search.sub) = 200
          THEN /\ search' = [search EXCEPT !.pc = "responded", !.status = 200,
                                           !.kind = "results", !.results = results]
               /\ logs' = log(logs, "success", "Rewritten search completed", Len(results))
          ELSE /\ search' = [search EXCEPT !.pc = "responded",
                                           !.status = RequestStatus(search.sub),
                                           !.kind = "error", !.error = "error"]
               /\ logs' = log(logs, "error", "Rewritten search failed", 0)
    /\ UNCHANGED <<now, submits, resp, QUEUE, nextId, batch, VECTORIZE, DB, curator, basic, stream, structured, second>>

----------------------------------------------------------------------------
(* Basic search: handleSearch (GET /api/search) and the search_memory tool *)

(* No request is being served *)
NoBasic ==
    [pc |-> "idle", entry |-> "none", query |-> Undefined, topK |-> 0,
     matches |-> <<>>,        \* results.matches, as the index returned them
     rows |-> <<>>,           \* the ids of the hydrated rows, as the select returned them
     status |-> 0, error |-> Undefined,
     response |-> <<>>]       \* the memories of the answer, in its order

(* The orders in which a store may return the elements of S *)
Listings(S) ==
    {o \in [1..Cardinality(S) -> S] : \A j, l \in 1..Cardinality(S) : j # l => o[j] # o[l]}

(* querySimilarVectors(env, query, topK): the matches, nearest first *)
querySimilarVectors(store, query, topK) ==
    LET values == generateEmbedding(query)
        score(x) == Score(values, store[x].values)
    IN {[j \in DOMAIN o |-> [id |-> o[j], score |-> score(o[j])]] :
           o \in {o \in UNION {Listings(S) : S \in Query(store, values, topK)} :
                     \A j, l \in DOMAIN o : j < l => score(o[j]) >= score(o[l])}}

(* results.matches.map(m => m.id) *)
MatchIds(matches) == {matches[j].id : j \in DOMAIN matches}

(* A merge that gives every memory the score of the best match *)
ScoreOfTopMatch(matches, id) ==
    IF matches = <<>> THEN None ELSE Some(matches[1].score)

(* results.matches.find(r => r.id === m.id)?.score and scoreMap.get(row.id): *)
(* the score of the match with this id, undefined without one.             *)
ScoreOf(matches, id) ==
    IF id \in MatchIds(matches)
    THEN Some(matches[CHOOSE j \in DOMAIN matches :
                         /\ matches[j].id = id
                         /\ \A l \in 1..(j - 1) : matches[l].id # id].score)
    ELSE None

(* { ...m, score }: the row with the score attached *)
Scored(db, id, score) ==
    [id |-> id, text |-> db[id].text, createdAt |-> db[id].createdAt, score |-> score]

(* Array.prototype.sort with (a, b) => b.score - a.score: stable, so       *)
(* memories of equal score keep the order they had.                        *)
RECURSIVE InsertByScore(_, _)
InsertByScore(sorted, m) ==
    IF sorted = <<>> THEN <<m>>
    ELSE IF sorted[1].score >= m.score
         THEN <<sorted[1]>> \o InsertByScore(Tail(sorted), m)
         ELSE <<m>> \o sorted

RECURSIVE sort(_)
sort(list) ==
    IF list = <<>> THEN <<>>
    ELSE InsertByScore(sort(SubSeq(list, 1, Len(list) - 1)), list[Len(list)])

(* handleSearch: GET /api/search?q=...; the rows are answered in the order *)
(* getMemoriesByIds returned them.                                         *)
handleSearch(q, matches, rows, ok) ==
    /\ basic.pc = "idle"
    /\ IF Falsy(q)
       THEN basic' = [NoBasic EXCEPT !.pc = "responded", !.entry = "http", !.query = q,
                                     !.status = 200]
       ELSE IF ~ok
       THEN basic' = [NoBasic EXCEPT !.pc = "responded", !.entry = "http", !.query = q,
                                     !.topK = SEARCH_TOPK, !.status = 500,
                                     !.error = "backend error"]
       ELSE /\ matches \in querySimilarVectors(VECTORIZE, q, SEARCH_TOPK)
            /\ rows \in Listings(getMemoriesByIds(DB, MatchIds(matches)))
            /\ basic' = [NoBasic EXCEPT
                            !.pc = "responded", !.entry = "http", !.query = q,
                            !.topK = SEARCH_TOPK, !.matches = matches, !.rows = rows,
                            !.status = 200,
                            !.response = [j \in DOMAIN rows |->
                                            Scored(DB, rows[j], ScoreOf(matches, rows[j]))]]
    /\ UNCHANGED <<now, submits, resp, QUEUE, nextId, batch, VECTORIZE, DB, logs, curator,
                   search, stream, structured, second>>

(* search_memory: the rows with scoreMap.get(row.id) || 0, sorted by score; *)
(* each is then written as one numbered line of the answer.                *)
search_memory(query, limit, matches, rows, ok) ==
    /\ basic.pc = "idle"
    /\ IF ~ok
       THEN basic' = [NoBasic EXCEPT !.pc = "responded", !.entry = "tool", !.query = query,
                                     !.topK = limit, !.status = 500,
                                     !.error = "Search Error"]
       ELSE /\ matches \in querySimilarVectors(VECTORIZE, query, limit)
            /\ IF Len(matches) = 0
               THEN /\ rows = <<>>
                    /\ basic' = [NoBasic EXCEPT !.pc = "responded", !.entry = "tool",
                                                !.query = query, !.topK = limit,
                                                !.status = 200]
               ELSE /\ rows \in Listings(getMemoriesByIds(DB, MatchIds(matches)))
                    /\ basic' = [NoBasic EXCEPT
                                    !.pc = "responded", !.entry = "tool", !.query = query,
                                    !.topK = limit, !.matches = matches, !.rows = rows,
                                    !.status = 200,
                                    !.response =
                                        sort([j \in DOMAIN rows |->
                                                LET s == ScoreOf(matches, rows[j])
                                                IN Scored(DB, rows[j],
                                                          IF s = None THEN 0 ELSE s[1])])]
    /\ UNCHANGED <<now, submits, resp, QUEUE, nextId, batch, VECTORIZE, DB, logs, curator,
                   search, stream, structured, second>>

----------------------------------------------------------------------------
(* Log stream: SignalLogger.getRecentLogs and GET /api/sse/logs *)

(* getRecentLogs: this.logs.slice(-50) *)
getRecentLogs(l) ==
    IF Len(l) > LOG_TAIL THEN SubSeq(l, Len(l) - LOG_TAIL + 1, Len(l)) ELSE l

(* Nobody has subscribed *)
NoStream ==
    [connected |-> FALSE,
     since |-> 0,             \* entries in the log when the subscriber connected
     written |-> <<>>,        \* chunks written to the writable side, not yet read
     received |-> <<>>]       \* chunks the subscriber has read from the readable side

(* Some part of the worker calls logger.log(type, message) *)
LoggerLog(type, message) ==
    /\ Len(logs) < MaxLogs
    /\ logs' = log(logs, type, message, Len(logs) + 1)
    /\ UNCHANGED <<now, submits, resp, QUEUE, nextId, batch, VECTORIZE, DB, curator, search,
                   basic, stream, structured, second>>

(* fetch, pathname /api/sse/logs: one chunk per recent entry is written to *)
(* the stream and the response is returned with the readable side.         *)
Subscribe ==
    /\ ~stream.connected
    /\ stream' = [connected |-> TRUE, since |-> Len(logs),
                  written |-> getRecentLogs(logs), received |-> <<>>]
    /\ UNCHANGED <<now, submits, resp, QUEUE, nextId, batch, VECTORIZE, DB, logs, curator,
                   search, basic, structured, second>>

(* The runtime hands the next written chunk to the subscriber *)
Flush ==
    /\ stream.connected /\ stream.written # <<>>
    /\ stream' = [stream EXCEPT !.written = Tail(@),
                                !.received = Append(@, Head(stream.written))]
    /\ UNCHANGED <<now, submits, resp, QUEUE, nextId, batch, VECTORIZE, DB, logs, curator,
                   search, basic, structured, second>>

(* The subscriber closes the connection *)
Disconnect ==
    /\ stream.connected
    /\ stream' = [stream EXCEPT !.connected = FALSE, !.written = <<>>]
    /\ UNCHANGED <<now, submits, resp, QUEUE, nextId, batch, VECTORIZE, DB, logs, curator,
                   search, basic, structured, second>>

----------------------------------------------------------------------------
(* Edge provider: generateStructured of ai/providers/worker-ai.ts *)

(* What the structuring model may put in response.response: an object, a   *)
(* JSON text, a JSON text inside a markdown fence, a text that is cut off. *)
JsonText == "{\"tags\":[]}"
FencedText == "~~~json {\"tags\":[]} ~~~"
BrokenText == "{\"tags\":["
ParsedObject == [tags |-> <<>>]

(* cleanJsonOutput: the markdown wrapper around a JSON text is removed *)
cleanJsonOutput(text) == IF text = FencedText THEN JsonText ELSE text

(* JSON.parse: the value, or a SyntaxError *)
Parses(text) == text = JsonText

(* No call is being made; args are the arguments of the call to come *)
NoStructured ==
    [pc |-> "idle",
     args |-> [prompt |-> Undefined, schema |-> "json", reasoningEffort |-> Undefined,
               structuringInstruction |-> Undefined],
     effort |-> Undefined,        \* the effort the reasoning model was called with
     instruction |-> Undefined,   \* the system message of the structuring call
     cleans |-> 0,                \* calls of cleanJsonOutput
     parses |-> 0,                \* calls of JSON.parse
     parseFailures |-> 0,         \* calls of JSON.parse that threw
     cleanedFirst |-> FALSE,      \* the first JSON.parse was given cleaned text
     error |-> Undefined,         \* the error the call rejected with
     value |-> None]              \* the value the call resolved with

(* The catch block of generateStructured: log, rethrow the same error *)
Rethrow(s, error) == [s EXCEPT !.pc = "rejected", !.error = error]

(* Step 1, the reasoning phase: generateText(env, prompt, "Analyze ...",   *)
(* {effort: options?.reasoningEffort || "high", sanitize: false}).         *)
StructuredReason(reasoningOutput, ok) ==
    /\ structured.pc = "idle"
    /\ LET s == [structured EXCEPT !.effort = Or(structured.args.reasoningEffort, "high")]
       IN structured' =
            IF ~ok THEN Rethrow(s, "Failed to generate text")
            ELSE IF reasoningOutput \in {"", " "}
            THEN Rethrow(s, "Reasoning model returned no content.")
            ELSE [s EXCEPT !.pc = "structure"]
    /\ UNCHANGED <<now, submits, resp, QUEUE, nextId, batch, VECTORIZE, DB, logs, curator,
                   search, basic, stream, second>>

(* One JSON.parse of a text that was cleaned first *)
ParseCleaned(s, rawJson) ==
    LET p == [s EXCEPT !.cleans = @ + 1, !.parses = @ + 1,
                       !.cleanedFirst = (s.parses = 0)]
    IN IF Parses(cleanJsonOutput(rawJson))
       THEN [p EXCEPT !.pc = "resolved", !.value = Some(ParsedObject)]
       ELSE Rethrow([p EXCEPT !.parseFailures = @ + 1], "SyntaxError")

(* Step 2, the structuring phase: env.AI.run(STRUCTURING_MODEL, ...) and   *)
(* the reading of its response.                                            *)
StructuredRun(response, ok) ==
    /\ structured.pc = "structure"
    /\ LET s == [structured EXCEPT
                    !.instruction = Or(structured.args.structuringInstruction,
                                       "Extract information from the analysis")]
       IN structured' =
            IF ~ok THEN Rethrow(s, "AI.run failed")
            ELSE IF response.kind = "text"
            THEN Rethrow(s, "Unexpected response format from structuring model")
            ELSE IF response.kind = "object"
            THEN [s EXCEPT !.pc = "resolved", !.value = Some(ParsedObject)]
            ELSE ParseCleaned(s, response.response)
    /\ UNCHANGED <<now, submits, resp, QUEUE, nextId, batch, VECTORIZE, DB, logs, curator,
                   search, basic, stream, second>>

(* What env.AI.run may resolve with: a bare text, {response: object} or    *)
(* {response: string}.                                                     *)
StructuringResponses ==
    {[kind |-> "text", response |-> JsonText], [kind |-> "object", response |-> JsonText]}
    \cup {[kind |-> "string", response |-> t] : t \in {JsonText, FencedText, BrokenText}}

----------------------------------------------------------------------------
(* Specifications *)

(* The front door on its own: requests are accepted and enqueued *)
InitFrontDoor ==
    /\ now = 1
    /\ submits = 0
    /\ resp = NoResp
    /\ QUEUE = <<>>
    /\ nextId = 1
    /\ batch = <<>>
    /\ VECTORIZE = <<>>
    /\ DB = <<>>
    /\ logs = <<>>
    /\ curator = Idle
    /\ search = NoSearch
    /\ basic = NoBasic
    /\ stream = NoStream
    /\ structured = NoStructured
    /\ second = Idle

NextFrontDoor ==
    \/ PostMemory
    \/ SaveMemory

SpecFrontDoor == InitFrontDoor /\ [][NextFrontDoor]_vars

(* Envelopes the front door puts on the queue *)
Envelopes ==
    <<[text |-> "e1", context_tags |-> Some(<<"web-ui">>), timestamp |-> 1,
      source_app |-> "web-client", session_id |-> "default-session"],
     [text |-> "e2", context_tags |-> Some(<<"coding", "prefs">>), timestamp |-> 2,
      source_app |-> Undefined, session_id |-> Undefined]>>

(* Queues the consumer starts from *)
SeedQueues == {SubSeq(Envelopes, 1, 1), Envelopes, <<Envelopes[2], Envelopes[2]>>}

(* The queue consumer: a queue holding envelopes of the front door *)
Init ==
    /\ now = 3
    /\ submits = 0
    /\ resp = NoResp
    /\ QUEUE \in SeedQueues
    /\ nextId = 1
    /\ batch = <<>>
    /\ VECTORIZE = <<>>
    /\ DB = <<>>
    /\ logs = <<>>
    /\ curator = Idle
    /\ search = NoSearch
    /\ basic = NoBasic
    /\ stream = NoStream
    /\ structured = NoStructured
    /\ second = Idle

Next ==
    \/ \E S \in SUBSET (DOMAIN QUEUE) : Deliver(S)
    \/ \E k \in DOMAIN batch, outcome \in UpsertOutcomes : Upsert(k, outcome)
    \/ \E k \in DOMAIN batch, outcome \in InsertOutcomes : Insert(k, outcome)
    \/ \E k \in DOMAIN batch : Backoff(k)
    \/ \E k \in DOMAIN batch : Settle(k)

Spec == Init /\ [][Next]_vars

(* The promises of a batch are run to completion: while a message is not   *)
(* settled, its pending call returns or its timer fires.                   *)
ConsumerStep ==
    \/ \E k \in DOMAIN batch, outcome \in UpsertOutcomes : Upsert(k, outcome)
    \/ \E k \in DOMAIN batch, outcome \in InsertOutcomes : Insert(k, outcome)
    \/ \E k \in DOMAIN batch : Backoff(k)
    \/ \E k \in DOMAIN batch : Settle(k)

SpecLive == Init /\ [][Next]_vars /\ WF_vars(ConsumerStep)

(* Stores as ingestion leaves them: empty, or memory 1 is e1; memory 2 is  *)
(* e2 or q, stored in full or as a vector whose row was never written;     *)
(* memory 3, if any, is e3 or t.                                           *)
SeedRow(text, id) ==
    [text |-> text, tags |-> JSONstringify(Some(<<"general">>)),
     sourceApp |-> "unknown", sessionId |-> "unknown",
     status |-> "raw", createdAt |-> id, updatedAt |-> id]

SeedVector(text, id) ==
    upsertMemoryVector(<<>>, text, id, id, IngestMetadata(Some(<<"general">>)))[id]

SeedStores ==
    {[texts |-> <<"e1", t2, t3>>, rows |-> {1} \cup r2 \cup r3, vectors |-> {1, 2} \cup r3] :
        t2 \in {"e2", "q"}, t3 \in {"e3", "t"}, r2 \in {{2}, {}}, r3 \in {{3}, {}}}
    \cup {[texts |-> <<"e1", "e2", "e3">>, rows |-> {}, vectors |-> {}]}

(* The curator: one invocation over stores filled by ingestion *)
InitCurator ==
    /\ now = 4
    /\ submits = 0
    /\ resp = NoResp
    /\ QUEUE = <<>>
    /\ nextId = 4
    /\ batch = <<>>
    /\ \E seed \in SeedStores :
          /\ DB = [x \in seed.rows |-> SeedRow(seed.texts[x], x)]
          /\ VECTORIZE = [x \in seed.vectors |-> SeedVector(seed.texts[x], x)]
    /\ logs = <<>>
    /\ curator = Idle
    /\ search = NoSearch
    /\ basic = NoBasic
    /\ stream = NoStream
    /\ structured = NoStructured
    /\ second = Idle

Orders == UNION {[1..n -> 1..3] : n \in 0..3}

NextCurator ==
    \/ \E order \in Orders, ok \in BOOLEAN : CuratorStart(order, ok)
    \/ \E S \in SUBSET DOMAIN VECTORIZE, ok \in BOOLEAN : CuratorQuery(S, ok)
    \/ \E ok \in BOOLEAN : CuratorHydrate(ok)
    \/ \E newText \in MergeOutputs, ok \in BOOLEAN : CuratorGenerate(newText, ok)
    \/ \E ok \in BOOLEAN : CuratorUpdate(ok)
    \/ \E ok \in BOOLEAN : CuratorUpsert(ok)
    \/ \E ok \in BOOLEAN : CuratorDeleteRows(ok)
    \/ \E ok \in BOOLEAN : CuratorDeleteVectors(ok)
    \/ \E ok \in BOOLEAN : CuratorMark(ok)
    \/ CuratorRerun

SpecCurator == InitCurator /\ [][NextCurator]_vars

(* Memories saved twice: memories 2p-1 and 2p carry the same text, as two  *)
(* deliveries of one envelope leave them.                                  *)
DuplicateTexts == <<"t1", "t2", "t3", "t4", "t5", "t6", "t7">>

TwiceSaved(x) == DuplicateTexts[(x + 1) \div 2]

(* The curator over stores that hold up to ManyMemories memories *)
InitCuratorMany ==
    /\ submits = 0
    /\ resp = NoResp
    /\ QUEUE = <<>>
    /\ batch = <<>>
    /\ \E n \in 1..ManyMemories :
          /\ DB = [x \in 1..n |-> SeedRow(TwiceSaved(x), x)]
          /\ VECTORIZE = [x \in 1..n |-> SeedVector(TwiceSaved(x), x)]
          /\ nextId = n + 1
          /\ now = n + 1
    /\ logs = <<>>
    /\ curator = Idle
    /\ search = NoSearch
    /\ basic = NoBasic
    /\ stream = NoStream
    /\ structured = NoStructured
    /\ second = Idle

(* The LLM answers with the anchor's own text, the fragments being the same *)
MergeEcho == IF Running("generate") THEN {memory.text} ELSE {}

(* An invocation in which no call fails; the select returns the raw rows   *)
(* oldest first.                                                           *)
NextCuratorMany ==
    \/ CuratorStart(Ordered(getRawMemories(DB)), TRUE)
    \/ \E S \in SUBSET DOMAIN VECTORIZE : CuratorQuery(S, TRUE)
    \/ CuratorHydrate(TRUE)
    \/ \E newText \in MergeEcho : CuratorGenerate(newText, TRUE)
    \/ CuratorUpdate(TRUE)
    \/ CuratorUpsert(TRUE)
    \/ CuratorDeleteRows(TRUE)
    \/ CuratorDeleteVectors(TRUE)
    \/ CuratorMark(TRUE)
    \/ CuratorRerun

SpecCuratorMany == InitCuratorMany /\ [][NextCuratorMany]_vars

(* Queues of two envelopes about the same thing, with context_tags absent, *)
(* empty or filled.                                                        *)
TaggedEnvelopes ==
    {<<[text |-> "e1", context_tags |-> c[1], timestamp |-> 1,
        source_app |-> "web-client", session_id |-> "default-session"],
       [text |-> "e2", context_tags |-> c[2], timestamp |-> 2,
        source_app |-> Undefined, session_id |-> Undefined]>> :
        c \in {<<None, Some(<<>>)>>, <<Some(<<"web-ui">>), Some(<<"coding", "prefs">>)>>}}

(* The timestamp of the envelope that carried the text *)
TimestampOf(text) == IF text = "e1" THEN 1 ELSE 2

(* Ingestion followed by the curator: the queue consumer works through the *)
(* envelopes, then the cron trigger fires between two batches.             *)
InitPipeline ==
    /\ now = 3
    /\ submits = 0
    /\ resp = NoResp
    /\ QUEUE \in TaggedEnvelopes
    /\ nextId = 1
    /\ batch = <<>>
    /\ VECTORIZE = <<>>
    /\ DB = <<>>
    /\ logs = <<>>
    /\ curator = Idle
    /\ search = NoSearch
    /\ basic = NoBasic
    /\ stream = NoStream
    /\ structured = NoStructured
    /\ second = Idle

NextPipeline ==
    \/ curator = Idle /\ Next
    \/ (\A k \in DOMAIN batch : Settled(batch[k])) /\ NextCuratorMany

SpecPipeline == InitPipeline /\ [][NextPipeline]_vars

(* What a client may ask for *)
SearchTexts == {"coffee habits", "TypeScript"}

(* Request bodies of POST /api/search/rewritten *)
SearchBodies ==
    {[queries |-> q, topK |-> k] :
        q \in {Missing, NotArray}
              \cup {Array(qs) : qs \in UNION {[1..n -> SearchTexts] : n \in 0..MaxQueries}},
        k \in {0, 1}}

(* Rewritten search over stores that hold two memories *)
InitSearch ==
    /\ now = 3
    /\ submits = 0
    /\ resp = NoResp
    /\ QUEUE = <<>>
    /\ nextId = 3
    /\ batch = <<>>
    /\ DB = [x \in {1, 2} |-> SeedRow(<<"e1", "t">>[x], x)]
    /\ VECTORIZE = [x \in {1, 2} |-> SeedVector(<<"e1", "t">>[x], x)]
    /\ logs = <<>>
    /\ curator = Idle
    /\ search = NoSearch
    /\ basic = NoBasic
    /\ stream = NoStream
    /\ structured = NoStructured
    /\ second = Idle

NextSearch ==
    \/ \E body \in SearchBodies : handleRewrittenSearch(body)
    \/ \E i \in DOMAIN search.sub, ok \in BOOLEAN :
          \E rewritten \in RewriteOutputs(search.sub[i].originalQuery) : Rewrite(i, rewritten, ok)
    \/ \E i \in DOMAIN search.sub, ok \in BOOLEAN : Embed(i, ok)
    \/ \E i \in DOMAIN search.sub, S \in SUBSET DOMAIN VECTORIZE, ok \in BOOLEAN :
          VectorQuery(i, S, ok)
    \/ \E i \in DOMAIN search.sub, ok \in BOOLEAN : FallbackEmbed(i, ok)
    \/ \E i \in DOMAIN search.sub, S \in SUBSET DOMAIN VECTORIZE, ok \in BOOLEAN :
          FallbackQuery(i, S, ok)
    \/ Respond

SpecSearch == InitSearch /\ [][NextSearch]_vars

(* What a client may search for: nothing, a stored text, a text close to   *)
(* the espresso memories, a text about something else.                     *)
BasicQueries == {"", "e1", "ec", "t"}

(* Basic search, by either entry point, over stores filled by ingestion *)
InitBasicSearch ==
    /\ now = 4
    /\ submits = 0
    /\ resp = NoResp
    /\ QUEUE = <<>>
    /\ nextId = 4
    /\ batch = <<>>
    /\ \E seed \in SeedStores :
          /\ DB = [x \in seed.rows |-> SeedRow(seed.texts[x], x)]
          /\ VECTORIZE = [x \in seed.vectors |-> SeedVector(seed.texts[x], x)]
    /\ logs = <<>>
    /\ curator = Idle
    /\ search = NoSearch
    /\ basic = NoBasic
    /\ stream = NoStream
    /\ structured = NoStructured
    /\ second = Idle

NextBasicSearch ==
    \/ \E q \in BasicQueries, ok \in BOOLEAN :
          \E matches \in querySimilarVectors(VECTORIZE, q, SEARCH_TOPK) :
             \E rows \in Listings(getMemoriesByIds(DB, MatchIds(matches))) :
                handleSearch(q, matches, rows, ok)
    \/ \E query \in BasicQueries, limit \in {1, SEARCH_LIMIT}, ok \in BOOLEAN :
          \E matches \in querySimilarVectors(VECTORIZE, query, limit) :
             \E rows \in Listings(getMemoriesByIds(DB, MatchIds(matches))) :
                search_memory(query, limit, matches, rows, ok)

SpecBasicSearch == InitBasicSearch /\ [][NextBasicSearch]_vars

(* The log and one subscriber of its stream *)
InitLogStream ==
    /\ now = 1
    /\ submits = 0
    /\ resp = NoResp
    /\ QUEUE = <<>>
    /\ nextId = 1
    /\ batch = <<>>
    /\ DB = <<>>
    /\ VECTORIZE = <<>>
    /\ logs = <<>>
    /\ curator = Idle
    /\ search = NoSearch
    /\ basic = NoBasic
    /\ stream = NoStream
    /\ structured = NoStructured
    /\ second = Idle

NextLogStream ==
    \/ LoggerLog("info", "signal")
    \/ Subscribe
    \/ Flush
    \/ Disconnect

SpecLogStream == InitLogStream /\ [][NextLogStream]_vars

(* The runtime keeps handing written chunks to a connected subscriber;     *)
(* nothing obliges the worker to log or the subscriber to leave.           *)
SpecLogStreamLive == InitLogStream /\ [][NextLogStream]_vars /\ WF_vars(Flush)

(* The arguments of a generateStructured call *)
StructuredArgs ==
    {[prompt |-> p, schema |-> sch, reasoningEffort |-> e, structuringInstruction |-> ins] :
        p \in {"summarise", "extract tags"}, sch \in {"zod", "json"},
        e \in {Undefined, "low", "medium", "high"}, ins \in {Undefined, "Fill the schema"}}

(* One generateStructured call of the edge provider *)
InitStructured ==
    /\ now = 1
    /\ submits = 0
    /\ resp = NoResp
    /\ QUEUE = <<>>
    /\ nextId = 1
    /\ batch = <<>>
    /\ DB = <<>>
    /\ VECTORIZE = <<>>
    /\ logs = <<>>
    /\ curator = Idle
    /\ search = NoSearch
    /\ basic = NoBasic
    /\ stream = NoStream
    /\ structured \in {[NoStructured EXCEPT !.args = a] : a \in StructuredArgs}
    /\ second = Idle

NextStructured ==
    \/ \E reasoningOutput \in {"", " ", "analysis"}, ok \in BOOLEAN :
          StructuredReason(reasoningOutput, ok)
    \/ \E response \in StructuringResponses, ok \in BOOLEAN : StructuredRun(response, ok)

SpecStructured == InitStructured /\ [][NextStructured]_vars

(* Ingestion and the curator at the same time: memory 1 is stored, an      *)
(* envelope about the same thing waits in the queue, and the cron trigger  *)
(* may fire at any moment.  The consumer's calls may fail; the curator's   *)
(* do not.                                                                 *)
InitConcurrent ==
    /\ now = 3
    /\ submits = 0
    /\ resp = NoResp
    /\ QUEUE = <<Envelopes[2]>>
    /\ nextId = 2
    /\ batch = <<>>
    /\ DB = [x \in {1} |-> SeedRow("e1", x)]
    /\ VECTORIZE = [x \in {1} |-> SeedVector("e1", x)]
    /\ logs = <<>>
    /\ curator = Idle
    /\ search = NoSearch
    /\ basic = NoBasic
    /\ stream = NoStream
    /\ structured = NoStructured
    /\ second = Idle

NextConcurrent ==
    \/ Next
    \/ NextCuratorMany

SpecConcurrent == InitConcurrent /\ [][NextConcurrent]_vars

(* Two curator invocations over memories 1 and 2, which are about the same *)
(* thing; no call fails.                                                   *)
InitTwoCurators ==
    /\ now = 3
    /\ submits = 0
    /\ resp = NoResp
    /\ QUEUE = <<>>
    /\ nextId = 3
    /\ batch = <<>>
    /\ DB = [x \in {1, 2} |-> SeedRow(<<"e1", "e2">>[x], x)]
    /\ VECTORIZE = [x \in {1, 2} |-> SeedVector(<<"e1", "e2">>[x], x)]
    /\ logs = <<>>
    /\ curator = Idle
    /\ search = NoSearch
    /\ basic = NoBasic
    /\ stream = NoStream
    /\ structured = NoStructured
    /\ second = Idle

NextTwoCurators ==
    \/ NextCuratorMany
    \/ Switch

SpecTwoCurators == InitTwoCurators /\ [][NextTwoCurators]_vars

----------------------------------------------------------------------------
(* Properties of the queue consumer (Spec; SpecLive for progress) *)

(* C1: within every attempt for a message the vector upsert for the       *)
(* message's id has completed before the relational insert is started, so  *)
(* a row written by ingestion always has its vector record.                *)
C1_VectorBeforeRow ==
    \A k \in DOMAIN batch :
        /\ batch[k].rowStarted => batch[k].vecDone
        /\ batch[k].id \in DOMAIN DB => batch[k].id \in DOMAIN VECTORIZE

(* a retry attempt that has reached its relational insert *)
C1_Witness ==
    \E k \in DOMAIN batch :
        batch[k].rowStarted /\ batch[k].vecDone /\ batch[k].i = 1 /\ batch[k].id \in DOMAIN DB

(* C2: every message of a batch is settled by exactly one of ack() and     *)
(* retry(): ack exactly when fn() resolved on some attempt, retry          *)
(* otherwise; and a step of one message leaves its siblings as they were.  *)
C2_AckXorRetry ==
    /\ [](\A k \in DOMAIN batch :
            LET m == batch[k]
            IN /\ Settled(m) => m.acks + m.retries = 1 /\ (m.acks = 1 <=> m.succeeded)
               /\ ~Settled(m) => m.acks = 0 /\ m.retries = 0)
    /\ [][Len(QUEUE') >= Len(QUEUE) =>
            \A j, k \in DOMAIN batch :
                (j # k /\ batch'[k] # batch[k]) => batch'[j] = batch[j]]_vars

(* one batch in which one message was acked and its sibling retried *)
C2_Witness ==
    \E j, k \in DOMAIN batch :
        /\ batch[j].pc = "acked" /\ batch[j].acks = 1
        /\ batch[k].pc = "retried" /\ batch[k].retries = 1

(* C3: when a message is acked, both stores hold an entry under the one id *)
(* drawn for that delivery: the vector is the embedding of the envelope    *)
(* text, the row has the envelope text, status raw and the envelope        *)
(* timestamp as created_at.                                                *)
C3_AckedIsStored ==
    \A k \in DOMAIN batch :
        LET m == batch[k]
        IN m.pc = "acked" =>
            /\ m.usedIds = {m.id}
            /\ m.id \in DOMAIN VECTORIZE /\ m.id \in DOMAIN DB
            /\ VECTORIZE[m.id].values = generateEmbedding(m.body.text)
            /\ DB[m.id].text = m.body.text
            /\ DB[m.id].status = "raw"
            /\ DB[m.id].createdAt = m.body.timestamp

(* a message acked on a later attempt *)
C3_Witness ==
    \E k \in DOMAIN batch : batch[k].pc = "acked" /\ batch[k].i >= 1

(* C8: withRetry calls fn() at most RETRIES times, stops at the first call *)
(* that resolves, and after the last failed call hands that call's error   *)
(* to the consumer's catch.                                                *)
C8_BoundedRetry ==
    \A k \in DOMAIN batch :
        LET m == batch[k]
        IN /\ Attempts(m) <= RETRIES
           /\ m.succeeded => m.pc \in {"settle", "acked"} /\ m.fails = Attempts(m) - 1
           /\ m.pc = "retried" =>
                 ~m.succeeded /\ m.fails = RETRIES /\ Attempts(m) = RETRIES /\ m.thrown = m.lastErr
           /\ m.pc \in {"attempt", "backoff"} => ~m.succeeded /\ m.thrown = Undefined

(* a delivery given up after the third failed call *)
C8_Witness ==
    \E k \in DOMAIN batch :
        batch[k].pc = "retried" /\ batch[k].fails = 3 /\ batch[k].thrown = "D1 unavailable"

(* C9: when the relational insert failed on the first attempts and then    *)
(* succeeded, every attempt repeated the vector upsert under the same id,  *)
(* the id has one vector record and one row, and the message is acked      *)
(* once and never retried.                                                 *)
C9_InsertFailuresThenSuccess ==
    \A k \in DOMAIN batch :
        LET m == batch[k]
        IN (m.succeeded /\ m.insertFails >= 1 /\ m.insertFails = m.fails) =>
            /\ m.insertFails <= 2
            /\ m.upserts = m.insertFails + 1
            /\ m.usedIds = {m.id}
            /\ m.id \in DOMAIN VECTORIZE /\ m.id \in DOMAIN DB
            /\ m.retries = 0
            /\ m.pc = "acked" => m.acks = 1
            /\ (Len(batch) = 1 /\ nextId = 2) =>
                  DOMAIN VECTORIZE = {m.id} /\ DOMAIN DB = {m.id}

(* acked on the third attempt after two failed inserts *)
C9_Witness ==
    \E k \in DOMAIN batch :
        /\ batch[k].pc = "acked" /\ batch[k].insertFails = 2 /\ batch[k].fails = 2
        /\ Len(batch) = 1 /\ nextId = 2

(* C10: an attempt whose relational insert is refused by the primary key,  *)
(* because an earlier attempt wrote the row, counts as a success: the      *)
(* message goes on to be acked, it is not backed off or retried.           *)
C10_DuplicateKeyIsSuccess ==
    \A k \in DOMAIN batch :
        batch[k].lastErr = "UNIQUE constraint failed" =>
            batch[k].pc \in {"settle", "acked"}

(* C11: the consumer gets done with every message of a batch, its last     *)
(* retry included, and whenever it is done every row that ingestion has    *)
(* written has a vector record under the same id.                          *)
C11_RowGetsVector ==
    /\ []<>(\A k \in DOMAIN batch : Settled(batch[k]))
    /\ []((\A k \in DOMAIN batch : Settled(batch[k])) =>
            \A x \in DOMAIN DB : x \in DOMAIN VECTORIZE)

(* a message given up after its last retry whose row was written all the same *)
C11_Witness ==
    \E k \in DOMAIN batch :
        /\ batch[k].pc = "retried" /\ batch[k].fails = RETRIES
        /\ batch[k].id \in DOMAIN DB /\ batch[k].id \in DOMAIN VECTORIZE

----------------------------------------------------------------------------
(* Properties of the front door (SpecFrontDoor) *)

(* C6: a submit whose text is empty or missing is rejected as invalid      *)
(* input and puts nothing on the queue, at both entry points.              *)
C6_EmptyTextRejected ==
    [][(submits' # submits /\ Falsy(resp'.text)) =>
            (resp'.status = 400 /\ QUEUE' = QUEUE)]_vars

(* C7: handling a submit that passes validation makes exactly one queue    *)
(* send and no other call, writes neither store, and answers queued        *)
(* exactly when the send succeeded.                                        *)
C7_SubmitOnlyEnqueues ==
    [][submits' # submits =>
            /\ VECTORIZE' = VECTORIZE /\ DB' = DB /\ nextId' = nextId
            /\ resp'.calls = IF resp'.status = 400 THEN <<>> ELSE <<"QUEUE">>
            /\ (resp'.body = "queued") <=> (Len(QUEUE') = Len(QUEUE) + 1)
            /\ Len(QUEUE') \in {Len(QUEUE), Len(QUEUE) + 1}
            /\ SubSeq(QUEUE', 1, Len(QUEUE)) = QUEUE]_vars

(* both entry points have answered queued *)
C7_Witness ==
    /\ resp.entry = "tool" /\ resp.body = "queued" /\ Len(QUEUE) = 2
    /\ QUEUE[1].source_app = "web-client"

----------------------------------------------------------------------------
(* Properties of the curator (SpecCurator; SpecCuratorMany for the cap) *)

NoCuratorError == \A j \in DOMAIN logs : logs[j].type # "error"

(* C4: when a consolidation has completed for anchor m with duplicate set  *)
(* D, the vector matches other than m above the threshold, the row of m    *)
(* exists and no id of D is left in either store.                          *)
C4_ConsolidationRemovesDuplicates ==
    curator.merged.anchor # 0 =>
        /\ curator.merged.anchor \in DOMAIN DB
        /\ \A x \in curator.merged.matches : x \notin DOMAIN DB /\ x \notin DOMAIN VECTORIZE

(* C5: from three raw memories that are near-duplicates of one another, an *)
(* invocation that ends without an error leaves one of them, consolidated  *)
(* in both stores, and removes the other two from both stores.             *)
C5_ThreeDuplicatesBecomeOne ==
    ( /\ curator.pc = "done" /\ NoCuratorError
      /\ curator.startRows = {1, 2, 3} /\ curator.startVectors = {1, 2, 3}
      /\ Len(curator.rawMemories) = 3
      /\ \A j, l \in 1..3 : j # l =>
            Score(generateEmbedding(curator.rawMemories[j].text),
                  generateEmbedding(curator.rawMemories[l].text)) > SIMILARITY_THRESHOLD )
    => \E x \in {1, 2, 3} :
          /\ DOMAIN DB = {x} /\ DB[x].status = "consolidated"
          /\ DOMAIN VECTORIZE = {x}
          /\ VECTORIZE[x].primary_tag = "consolidated" /\ VECTORIZE[x].priority_rank = 1

(* The second invocation has been started *)
SecondRun == curator.run = 2 /\ curator.pc # "idle"

(* C12 as stated: a second invocation, started on the stores a completed   *)
(* invocation left, changes neither store.                                 *)
C12_RerunChangesNothing ==
    SecondRun => DB = curator.final.DB /\ VECTORIZE = curator.final.VECTORIZE

(* C12, amended: a second invocation, started on the stores left by a      *)
(* completed invocation that left no row with status raw, changes neither  *)
(* store.                                                                  *)
C12_RerunWithoutRawChangesNothing ==
    (SecondRun /\ getRawMemories(curator.final.DB) = {}) =>
        DB = curator.final.DB /\ VECTORIZE = curator.final.VECTORIZE

(* the second invocation has ended on stores that hold a consolidated memory *)
C12_Witness ==
    /\ curator.run = 2 /\ curator.pc = "done"
    /\ getRawMemories(curator.final.DB) = {}
    /\ \E x \in DOMAIN DB : DB[x].status = "consolidated"
    /\ DB = curator.final.DB /\ VECTORIZE = curator.final.VECTORIZE

(* C13: when one consolidation of the first invocation was cut short after *)
(* the anchor's row was updated, and nothing else failed, then after the   *)
(* next invocation the anchor's row is there under its id with the merged  *)
(* text and the duplicates are gone from both stores.                      *)
C13_PartialConsolidationHeals ==
    ( /\ curator.run = 2 /\ curator.pc = "done"
      /\ curator.partial.anchor # 0
      /\ Cardinality({j \in DOMAIN logs : logs[j].type = "error"}) = 1 )
    => /\ curator.partial.anchor \in DOMAIN DB
       /\ DB[curator.partial.anchor].text = curator.partial.newText
       /\ \A x \in curator.partial.deleteIds :
              x \notin DOMAIN DB /\ x \notin DOMAIN VECTORIZE

(* The consolidations the invocations have logged *)
Consolidations ==
    Cardinality({j \in DOMAIN logs : logs[j].message = "Merged memories into"})

(* C14: one invocation of the curator completes at most CONSOLIDATION_CAP  *)
(* consolidations.                                                         *)
C14_AtMostTenConsolidations ==
    curator.run = 1 => Consolidations <= CONSOLIDATION_CAP

(* The positions inside the body of the curator's loop *)
LoopSteps ==
    {"query", "hydrate", "generate", "update", "upsert", "deleteRows", "deleteVectors", "mark"}

(* This step is the last one taken for the current candidate *)
CandidateEnds == curator'.idx # curator.idx \/ curator'.pc = "done"

(* This step appends an error entry for the current candidate *)
ErrorLogged ==
    /\ Len(logs') = Len(logs) + 1
    /\ SubSeq(logs', 1, Len(logs)) = logs
    /\ logs'[Len(logs')].type = "error"
    /\ logs'[Len(logs')].id = memory.id

(* C15: a step of the loop never ends the invocation before the last       *)
(* candidate; a candidate is left either by its mark, by its completed     *)
(* consolidation, or with an error entry for it and no write by that step; *)
(* and after an error entry the loop is at the next candidate.             *)
C15_CandidateErrorsAreLoggedAndSkipped ==
    [][curator.pc \in LoopSteps =>
         /\ curator'.pc \in LoopSteps \cup {"done"}
         /\ curator'.rawMemories = curator.rawMemories
         /\ curator'.pc = "done" => curator.idx = Len(curator.rawMemories)
         /\ curator'.idx # curator.idx =>
                curator'.idx = curator.idx + 1 /\ curator'.pc = "query"
         /\ CandidateEnds =>
                \/ ErrorLogged /\ DB' = DB /\ VECTORIZE' = VECTORIZE
                \/ curator.pc = "mark" /\ logs' = logs
                \/ /\ curator.pc = "deleteVectors"
                   /\ logs' = log(logs, "success", "Merged memories into", memory.id)
         /\ ~CandidateEnds => logs' = logs
       ]_vars

(* an invocation has ended in which a candidate failed and a later one was *)
(* consolidated                                                            *)
C15_Witness ==
    /\ curator.pc = "done" /\ curator.run = 1
    /\ \E j, l \in DOMAIN logs :
          /\ j < l
          /\ logs[j].type = "error"
          /\ logs[l].message = "Merged memories into"
          /\ logs[l].id # logs[j].id

----------------------------------------------------------------------------
(* Properties of ingestion followed by the curator (SpecPipeline) *)

(* context_tags[0] if there is one, else "general" *)
FirstTagOrGeneral(context_tags) ==
    IF context_tags = None \/ context_tags = Some(<<>>) THEN "general"
    ELSE Head(context_tags[1])

(* C16: a vector record written by an attempt of ingestion has             *)
(* priority_rank 0 and the envelope's first context tag, or general, as    *)
(* primary_tag; one written by a consolidation has priority_rank 1,        *)
(* primary_tag consolidated and the created_at the anchor was ingested     *)
(* with.                                                                   *)
C16_VectorMetadata ==
    [][ /\ \A k \in DOMAIN batch :
             (k \in DOMAIN batch' /\ batch'[k].upserts = batch[k].upserts + 1) =>
                 LET v == VECTORIZE'[batch[k].id]
                 IN /\ v.priority_rank = 0
                    /\ v.primary_tag = FirstTagOrGeneral(batch[k].body.context_tags)
                    /\ v.created_at = batch[k].body.timestamp
        /\ (curator.pc = "upsert" /\ curator'.pc = "deleteRows") =>
                 LET v == VECTORIZE'[memory.id]
                 IN /\ v.priority_rank = 1
                    /\ v.primary_tag = "consolidated"
                    /\ v.created_at = TimestampOf(memory.text)
                    /\ memory.id \in DOMAIN VECTORIZE =>
                           v.created_at = VECTORIZE[memory.id].created_at
      ]_vars

(* a consolidation has written its vector next to the vector of a memory   *)
(* ingested with an empty context_tags                                     *)
C16_Witness ==
    /\ curator.pc = "deleteRows"
    /\ VECTORIZE[memory.id].primary_tag = "consolidated"
    /\ VECTORIZE[memory.id].priority_rank = 1
    /\ \E k \in DOMAIN batch :
          /\ batch[k].pc = "acked" /\ batch[k].body.context_tags = Some(<<>>)
          /\ batch[k].id \in DOMAIN VECTORIZE
          /\ VECTORIZE[batch[k].id].primary_tag = "general"
          /\ VECTORIZE[batch[k].id].priority_rank = 0

----------------------------------------------------------------------------
(* Properties of rewritten search (SpecSearch) *)

(* The request passed validation and has been answered *)
SearchAnswered == search.pc = "responded" /\ ~InvalidQueries(search.body.queries)

(* C17: the answer holds one result per query of the request, result i     *)
(* being the one for query i, whatever failed and in whatever order the    *)
(* sub-queries finished.                                                   *)
C17_OrderPreserved ==
    SearchAnswered =>
        /\ search.kind = "results"
        /\ Len(search.results) = Len(search.body.queries.value)
        /\ \A i \in DOMAIN search.results :
              search.results[i].originalQuery = search.body.queries.value[i]

(* two different queries answered, the second having finished first and    *)
(* the first having failed altogether                                      *)
C17_Witness ==
    /\ SearchAnswered
    /\ search.body.queries.value = <<"coffee habits", "TypeScript">>
    /\ search.completed = <<2, 1>>
    /\ search.sub[1].fallbackFailed
    /\ search.results[2].originalQuery = "TypeScript"

(* C18: a sub-query whose rewrite or embedding failed runs the fallback    *)
(* once, with the original query as the rewritten one; its result is the   *)
(* fallback's matches, or, if the fallback failed too, the empty result    *)
(* under the original query.                                               *)
C18_FallbackThenEmpty ==
    \A i \in DOMAIN search.sub :
        LET q == search.sub[i]
        IN /\ q.failedAt = "none" => q.fallbackRuns = 0 /\ ~q.fallbackFailed
           /\ q.failedAt \in {"rewrite", "embed"} =>
                 /\ q.fallbackRuns = 1
                 /\ q.pc \in {"fbEmbed", "fbQuery", "fulfilled"}
                 /\ q.pc = "fulfilled" =>
                       /\ q.value.originalQuery = search.body.queries.value[i]
                       /\ q.value.rewrittenQuery = search.body.queries.value[i]
                       /\ IF q.fallbackFailed
                          THEN q.value.vectorResults = [matches |-> {}]
                          ELSE q.value.vectorResults.matches \in
                                  Query(VECTORIZE,
                                        generateEmbedding(search.body.queries.value[i]),
                                        search.topK)

(* the embedding of the rewritten query failed, and then the fallback *)
C18_Witness ==
    \E i \in DOMAIN search.sub :
        /\ search.sub[i].failedAt = "embed" /\ search.sub[i].fallbackFailed
        /\ search.sub[i].pc = "fulfilled"
        /\ search.sub[i].value.vectorResults = [matches |-> {}]
        /\ search.sub[i].value.rewrittenQuery = search.sub[i].originalQuery

(* C19: a step of one sub-query leaves its siblings as they were; and when *)
(* a sub-query has failed in both attempts the request is still answered   *)
(* with results, in which every sibling that did not fail has its          *)
(* rewritten query and the matches the vector store gave for it.           *)
C19_FailedSubQueryIsolated ==
    /\ [][\A i, j \in DOMAIN search.sub :
             (i # j /\ j \in DOMAIN search'.sub /\ i \in DOMAIN search'.sub
                /\ search'.sub[i] # search.sub[i])
               => search'.sub[j] = search.sub[j]]_vars
    /\ []((SearchAnswered /\ \E i \in DOMAIN search.sub : search.sub[i].fallbackFailed) =>
            /\ search.status = 200 /\ search.kind = "results"
            /\ \A j \in DOMAIN search.sub :
                  /\ search.results[j] = search.sub[j].value
                  /\ search.sub[j].failedAt = "none" =>
                        /\ search.results[j].rewrittenQuery
                               \in RewriteOutputs(search.body.queries.value[j])
                        /\ search.results[j].vectorResults.matches \in
                               Query(VECTORIZE,
                                     generateEmbedding(search.results[j].rewrittenQuery),
                                     search.topK)
                        /\ search.results[j].vectorResults.matches # {})

(* answered with the first sub-query failed in both attempts and the       *)
(* second one untouched by any failure                                     *)
C19_Witness ==
    /\ SearchAnswered /\ search.status = 200
    /\ Len(search.sub) = 2
    /\ search.sub[1].fallbackFailed
    /\ search.sub[2].failedAt = "none"
    /\ search.results[2].vectorResults.matches # {}

(* The request carried an array of no queries *)
ZeroQueries ==
    /\ search.pc = "responded"
    /\ search.body.queries.kind = "array" /\ Len(search.body.queries.value) = 0

NoSearchCalls == search.calls = [rewrite |-> 0, embed |-> 0, query |-> 0]

(* C20 as stated: a rewritten search with zero queries is answered with an *)
(* empty list of results and has made no AI, embedding or vector call.     *)
C20_ZeroQueriesEmptyList ==
    ZeroQueries =>
        search.kind = "results" /\ search.results = <<>> /\ NoSearchCalls

(* C20, amended: a rewritten search with zero queries is refused as        *)
(* invalid input, with status 400 and no list of results, and has made no  *)
(* AI, embedding or vector call.                                           *)
C20_ZeroQueriesRefusedWithoutCalls ==
    ZeroQueries =>
        /\ search.status = 400 /\ search.kind = "error"
        /\ search.error = "Missing or invalid queries array"
        /\ search.sub = <<>> /\ NoSearchCalls

(* a request with an empty array of queries has been answered *)
C20_Witness ==
    ZeroQueries /\ search.status = 400 /\ NoSearchCalls /\ search.body.topK = 1

----------------------------------------------------------------------------
(* Properties of basic search (SpecBasicSearch) *)

(* The score an answered memory carries *)
ScoreValue(m) == IF basic.entry = "http" THEN m.score[1] ELSE m.score

(* C21: a successful basic search answers its memories sorted by score,    *)
(* highest first, and memories of equal score by created_at, latest first, *)
(* whatever the vector matches and the hydrated rows are.                  *)
C21_SortedByScoreThenCreatedAt ==
    (basic.pc = "responded" /\ basic.status = 200) =>
        \A j, l \in DOMAIN basic.response :
            j < l =>
                \/ ScoreValue(basic.response[j]) > ScoreValue(basic.response[l])
                \/ /\ ScoreValue(basic.response[j]) = ScoreValue(basic.response[l])
                   /\ basic.response[j].createdAt >= basic.response[l].createdAt

(* C22: a basic search that met no backend failure answers with status 200 *)
(* exactly the memories whose id is both among the vector matches and in   *)
(* the relational store, each once and with the score of its own match; a  *)
(* match without a row is left out, and the answer is no longer than the   *)
(* list of matches, which is no longer than topK.                          *)
C22_ExactlyTheHydratedMatches ==
    (basic.pc = "responded" /\ basic.error = Undefined) =>
        /\ basic.status = 200
        /\ {basic.response[j].id : j \in DOMAIN basic.response}
              = MatchIds(basic.matches) \cap DOMAIN DB
        /\ \A j, l \in DOMAIN basic.response :
              j # l => basic.response[j].id # basic.response[l].id
        /\ \A j \in DOMAIN basic.response :
              /\ basic.response[j].text = DB[basic.response[j].id].text
              /\ \E l \in DOMAIN basic.matches :
                    /\ basic.matches[l].id = basic.response[j].id
                    /\ basic.entry = "http" => basic.response[j].score # None
                    /\ ScoreValue(basic.response[j]) = basic.matches[l].score
        /\ Len(basic.response) <= Len(basic.matches)
        /\ Len(basic.matches) <= basic.topK \/ basic.matches = <<>>

(* an answer of two memories with different scores, a third match having   *)
(* no row                                                                  *)
C22_Witness ==
    /\ basic.pc = "responded" /\ basic.status = 200
    /\ Len(basic.matches) = 3 /\ Len(basic.response) = 2
    /\ \E l \in DOMAIN basic.matches : basic.matches[l].id \notin DOMAIN DB
    /\ ScoreValue(basic.response[1]) # ScoreValue(basic.response[2])

----------------------------------------------------------------------------
(* Properties of the signal logger and its stream (SpecLogStream;          *)
(* SpecLogStreamLive for delivery)                                         *)

(* C23: the logger's in-memory log never holds more than 50 entries: it is *)
(* the last 50 of the entries appended.                                    *)
C23_LogHoldsLastFifty ==
    /\ Len(logs) <= LOG_TAIL
    /\ logs = getRecentLogs(logs)

(* What a subscriber is due: the tail of the log when it connected, then   *)
(* the entries appended since, in append order.                            *)
Due == getRecentLogs(SubSeq(logs, 1, stream.since))
          \o SubSeq(logs, stream.since + 1, Len(logs))

(* C24: a connected subscriber receives the tail of the log as it was when *)
(* it connected (at most 50 entries, in append order) followed by the      *)
(* entries appended afterwards: what it has received is always a prefix of *)
(* that sequence, and again and again it has received all of it or has     *)
(* left.                                                                   *)
C24_SubscriberReceivesTailThenAppends ==
    /\ [](stream.connected =>
            /\ Len(stream.received) <= Len(Due)
            /\ stream.received = SubSeq(Due, 1, Len(stream.received)))
    /\ []<>(~stream.connected \/ stream.received = Due)

----------------------------------------------------------------------------
(* Properties of the edge provider's structured pipeline (SpecStructured) *)

(* C25: when a parse of the structuring model's output has failed, the     *)
(* call has ended only after sanitizing once and parsing a second time;    *)
(* and a call whose second parse failed as well is rejected with a         *)
(* StructuredGenerationError.                                              *)
C25_SanitizeAndRetryOnce ==
    (structured.pc \in {"resolved", "rejected"} /\ structured.parseFailures > 0) =>
        /\ structured.parses = 2 /\ structured.cleans = 1
        /\ structured.parseFailures = 2 =>
              structured.pc = "rejected" /\ structured.error = "StructuredGenerationError"

----------------------------------------------------------------------------
(* Further properties of the curator (SpecCurator) *)

(* Some vector other than the candidate's own is closer to the candidate's *)
(* text than the threshold                                                 *)
HasCloseVector ==
    \E y \in (DOMAIN VECTORIZE) \ {memory.id} :
        Score(generateEmbedding(memory.text), VECTORIZE[y].values) > SIMILARITY_THRESHOLD

(* C26: the similarity query of a candidate writes nothing, and sends the  *)
(* candidate to markMemoryProcessed exactly when no vector with another id *)
(* scores strictly above the threshold; the step that follows for such a   *)
(* candidate changes nothing but the status of the candidate's row, which  *)
(* becomes processed: the row's other fields, every other row and the      *)
(* whole vector store stay as they were.  (A call that throws writes       *)
(* nothing and is logged.)                                                 *)
C26_NoMatchOnlyMarksProcessed ==
    /\ [][(Running("query") /\ logs' = logs) =>
            /\ DB' = DB /\ VECTORIZE' = VECTORIZE
            /\ curator'.pc = "mark" <=> ~HasCloseVector]_vars
    /\ [][(Running("mark") /\ curator.matchIds = {}) =>
            /\ VECTORIZE' = VECTORIZE
            /\ \/ DB' = DB /\ Len(logs') = Len(logs) + 1
                          /\ logs'[Len(logs')].type = "error"
               \/ /\ logs' = logs
                  /\ DOMAIN DB' = DOMAIN DB
                  /\ \A x \in DOMAIN DB :
                        DB'[x] = IF x = memory.id
                                 THEN [DB[x] EXCEPT !.status = "processed"]
                                 ELSE DB[x]]_vars

(* a candidate with a vector exactly on the threshold, and none above it,  *)
(* has been marked processed                                               *)
C26_Witness ==
    \E x \in DOMAIN DB, y \in DOMAIN VECTORIZE :
        /\ x # y /\ DB[x].status = "processed" /\ x \in DOMAIN VECTORIZE
        /\ Score(VECTORIZE[x].values, VECTORIZE[y].values) = SIMILARITY_THRESHOLD
        /\ \A z \in (DOMAIN VECTORIZE) \ {x} :
              Score(VECTORIZE[x].values, VECTORIZE[z].values) <= SIMILARITY_THRESHOLD

(* The anchor's row, if it is still there, carries the merged text *)
AnchorRowUpdated ==
    memory.id \in DOMAIN DB =>
        DB[memory.id].text = curator.newText /\ DB[memory.id].status = "consolidated"

(* The anchor's vector is the embedding of the merged text *)
AnchorVectorUpserted ==
    /\ memory.id \in DOMAIN VECTORIZE
    /\ VECTORIZE[memory.id].values = generateEmbedding(curator.newText)

(* C27: within one consolidation the anchor's vector is written only after *)
(* the anchor's row was updated; a row is deleted only after both; a       *)
(* vector is deleted only after its row was deleted; and a call of the     *)
(* consolidation that throws writes nothing and ends the consolidation:    *)
(* the curator goes on with the next candidate.                            *)
C27_ConsolidationOrder ==
    /\ [][\A x \in DOMAIN VECTORIZE' :
            (x \notin DOMAIN VECTORIZE \/ VECTORIZE'[x] # VECTORIZE[x]) =>
                x = memory.id /\ Running("upsert") /\ AnchorRowUpdated]_vars
    /\ [][DOMAIN DB' # DOMAIN DB =>
            /\ Running("deleteRows") /\ AnchorRowUpdated /\ AnchorVectorUpserted
            /\ (DOMAIN DB) \ (DOMAIN DB') = curator.deleteIds \cap DOMAIN DB]_vars
    /\ [][\A x \in (DOMAIN VECTORIZE) \ (DOMAIN VECTORIZE') :
            Running("deleteVectors") /\ x \in curator.deleteIds /\ x \notin DOMAIN DB]_vars
    /\ [][(curator.pc \in {"update", "upsert", "deleteRows", "deleteVectors"}
             /\ Len(logs') = Len(logs) + 1 /\ logs'[Len(logs')].type = "error") =>
            /\ DB' = DB /\ VECTORIZE' = VECTORIZE
            /\ curator'.pc \in {"query", "done"}
            /\ curator'.pc = "query" => curator'.idx = curator.idx + 1]_vars

(* one consolidation was cut short after its update, a later one of the    *)
(* same invocation ran to its last delete                                  *)
C27_Witness ==
    /\ curator.partial # NoPartial
    /\ curator.merged.anchor # 0 /\ curator.merged.deleted # {}
    /\ curator.merged.anchor # curator.partial.anchor
    /\ curator.merged.deleted \cap ((DOMAIN DB) \cup (DOMAIN VECTORIZE)) = {}

(* The ids whose rows the running invocation has deleted *)
DeletedInThisRun == curator.startRows \ DOMAIN DB

(* C29: no step of an invocation upserts a vector for, or deletes rows or  *)
(* vectors in favour of, a candidate whose own row the same invocation has *)
(* deleted before.                                                         *)
C29_DeletedIdNeverAnchors ==
    [][(curator.pc \in {"upsert", "deleteRows", "deleteVectors"}
          /\ (VECTORIZE' # VECTORIZE \/ DB' # DB)) =>
            memory.id \notin DeletedInThisRun]_vars

----------------------------------------------------------------------------
(* Properties of ingestion running beside the curator (SpecConcurrent) *)

(* C28: in every reachable state, whatever the interleaving of deliveries  *)
(* (with failures and retries) and curator invocations, every id that has  *)
(* a row in the relational store has a record in the vector store.         *)
C28_EveryRowHasItsVector ==
    \A x \in DOMAIN DB : x \in DOMAIN VECTORIZE

----------------------------------------------------------------------------
(* Properties of concurrent curator invocations (SpecTwoCurators) *)

(* The invocation is between its select and its return *)
InProgress(c) == c.pc \notin {"idle", "done", "crashed"}

(* The ids of the raw memories the invocation selected *)
Selected(c) == {c.rawMemories[j].id : j \in DOMAIN c.rawMemories}

(* C30: never are two curator invocations in progress whose selections of  *)
(* raw memories have a memory in common.                                   *)
C30_OneCuratorPerRawMemory ==
    ~(/\ InProgress(curator) /\ InProgress(second)
      /\ Selected(curator) \cap Selected(second) # {})
====
